---- MODULE Spec2Model ----
(***************************************************************************)
(* Resumable upload engine of the lecture-recording dashboard              *)
(* (src/src/index.ts): the /api/upload, /api/pause-upload and              *)
(* /api/resume-upload handlers, the background transfer loop               *)
(* performBackgroundUpload, the persisted session file                     *)
(* data/active-uploads.json, the in-memory progress map and the event      *)
(* streams of /api/upload-progress/<id>; the FfmpegSemaphore that limits   *)
(* the ffmpeg processes started through runFfmpeg; and the video analysis: *)
(* the /api/video-metadata handler with its processingVideos map,          *)
(* analyzeVideo, extractTimestampFromVideo with its loops over the start   *)
(* and end frames, the three cache files they keep, and the background     *)
(* scan that runs once after the server has started.                       *)
(*                                                                         *)
(* One action is one run of JavaScript between two suspension points       *)
(* (await, timer, incoming request).  The remote storage service, the      *)
(* clock, the file system and the `bun run sync` subprocess are inputs.    *)
(* Bun.write returns a promise that the code never awaits: a write is      *)
(* issued in the step that calls it and lands in a later step.  The writes *)
(* of the metadata cache are awaited and take a step of their own; those   *)
(* of the timebolt and timestamp caches land in the step that issues them. *)
(* ffprobe, ffmpeg and tesseract are inputs as well: each tool call yields *)
(* any of the outcomes the code distinguishes.                             *)
(***************************************************************************)
EXTENDS Integers, Sequences, FiniteSets, TLC

\* ------------------------------------------------------------------ bounds
MaxOps == 1        \* operations per behaviour when the client sends one request at a time
MaxOverlapOps == 2 \* operations per behaviour when requests may overlap
MaxPending == 1    \* Bun.write calls issued and not yet landed, per video being transferred
MaxSubscribers == 1 \* connections to /api/upload-progress/<id> per behaviour
MaxCallers == 7    \* calls of runFfmpeg per behaviour
MaxRequests == 2   \* /api/video-metadata requests per behaviour
MaxEdits == 1      \* changes of a recording file per behaviour

\* ------------------------------------------------------- program constants
CHUNK_SIZE == 5 * 1024 * 1024
EMIT_INTERVAL_MS == 1000
MAX_CONCURRENT_FFMPEG == 5

\* ------------------------------------------------------------ environment
Videos == {"DevA - rec.mp4"}
\* two recordings of different groups that are uploaded at the same time
VideoPair == Videos \cup {"DevB - rec.mp4"}
\* statSync(videoPath).size: 12 MiB, i.e. two full chunks and a 2 MiB tail
FileSize(v) == 12 * 1024 * 1024
\* Date.now() when the process starts; any value >= EMIT_INTERVAL_MS behaves alike
StartTime == 5 * EMIT_INTERVAL_MS
\* time between the loop's last emission and a later reading of Date.now()
Elapsed == {0, EMIT_INTERVAL_MS}
\* bytesUploaded values of a session left on disk by an earlier process run
PersistedOffsets == {CHUNK_SIZE, 2 * CHUNK_SIZE}
\* uploadSessionUrl of a session left on disk by an earlier process run
OldUrl == 0
ChunkStatuses == {200, 201, 308, 503}
ProbeStatuses == {200, 201, 308, 404, 410, 503}
\* Range header of a probe response, "bytes=<first>-<last>"; first = -1: no header
NoRange == [first |-> -1, last |-> -1]
RangeHeaders ==
    {NoRange} \cup {[first |-> 0, last |-> n - 1] : n \in {CHUNK_SIZE, 2 * CHUNK_SIZE}}
NoProbe == [status |-> 0, range |-> NoRange]

\* --------------------------------------------------- recordings and caches
\* video paths a client may name; the second matches /timebolted|turbo|FINAL|BEST/i
Recordings == {"lec1.mp4", "lec2 FINAL.mp4"}
\* the videos of data/lecture_recordings.json, in file order
RecordingLists == {<< >>, <<"lec1.mp4">>, <<"lec1.mp4", "lec2 FINAL.mp4">>}
\* content of data/timebolted-videos.json: the paths marked true
ManualTrackings == {{}, {"lec1.mp4"}}
\* the recordings whose file changes while the process runs
Edited == {"lec1.mp4"}
\* a recording file: its first 300 bytes and the bytes after them; Missing: no file
Missing == [prefix |-> 0, rest |-> 0]
Contents == {[prefix |-> 1, rest |-> 1], [prefix |-> 1, rest |-> 2], [prefix |-> 2, rest |-> 1]}
FirstContent == [prefix |-> 1, rest |-> 1]
\* Bun.hash.xxHash3 of a 300-byte prefix, taken to be free of collisions
xxHash3(prefix) == 31 * prefix + 7
\* the value null
null == 0
\* a hash left in a cache by a run over an earlier version of a file
OldHash == xxHash3(3)
\* stdout of the silence-detection pipeline: a count of silences, or the command fails
SilenceCounts == {"0", "1", "error"}
\* what the frame scan of extractTimestampFromVideo ends with: an exception or
\* unreadable dimensions, no valid timestamp, or a timestamp and a duration
ExtractOutcomes == {"fails", "none", "found"}
OcrTimestamp == "2025-03-07 09:05"

VARIABLES
    ops,                    \* per operation id: the request and its handler position
    loop,                   \* per operation id: locals of performBackgroundUpload
    sent,                   \* per operation id: Content-Range of every chunk PUT sent
    uploadProgress,         \* the Map uploadProgress, in insertion order
    cancelledUploads,       \* the Set cancelledUploads
    uploadAbortControllers, \* keys of the Map uploadAbortControllers
    aborted,                \* operation ids whose AbortController signal is aborted
    timers,                 \* pending cleanup setTimeout callbacks
    disk,                   \* content of data/active-uploads.json
    pendingWrites,          \* contents handed to Bun.write that have not landed
    pauseAccepted,          \* history: operations that were transferring, alone for their video,
                            \* when a pause of the video was accepted
    uploaded,               \* the videos whose recording has `uploaded: true` in
                            \* data/lecture_recordings.json
    progressListeners,      \* the Map progressListeners, as pairs <<uploadId, connection>>
    channels,               \* per connection to /api/upload-progress/<id>: its id, its
                            \* state, the events enqueued on its stream, and (history)
                            \* the snapshot and the events published while it was open
    ffmpegSemaphore,        \* the fields of the FfmpegSemaphore instance
    callers,                \* per call of runFfmpeg: the position of its run() frame
    files,                  \* per recording path: the content of the file
    edits,                  \* history: number of changes of recording files
    lectureRecordings,      \* the video paths of data/lecture_recordings.json
    manualTracking,         \* the paths marked in data/timebolted-videos.json
    videoMetadataCache,     \* content of data/video-metadata-cache.json
    timeboltedCache,        \* results of data/timebolted-cache.json
    timestampCache,         \* results of data/timestamp-cache.json
    processingVideos,       \* the Map processingVideos: path -> task owning the promise
    tasks,                  \* per analysis task: its position and locals
    scan,                   \* the lists and counters of the background scan
    extraction              \* the locals of one call of extractTimestampFromVideo

vars == <<ops, loop, sent, uploadProgress, cancelledUploads,
          uploadAbortControllers, aborted, timers, disk, pendingWrites,
          pauseAccepted, uploaded, progressListeners, channels, ffmpegSemaphore, callers,
          files, edits, lectureRecordings, manualTracking, videoMetadataCache,
          timeboltedCache, timestampCache, processingVideos, tasks, scan, extraction>>

\* the variables of the ffmpeg limiter
Limiter == <<ffmpegSemaphore, callers>>

\* the variables of the video analysis
Analysis == <<files, edits, lectureRecordings, manualTracking, videoMetadataCache,
              timeboltedCache, timestampCache, processingVideos, tasks, scan>>

OpIds == DOMAIN ops

\* ---------------------------------------------------------------- helpers
Min(a, b) == IF a < b THEN a ELSE b

\* Math.round(x / total * 100) for 0 <= x (round half up)
RoundPercent(x, total) == (100 * x + total \div 2) \div total

\* uploadProgress.has / get / set / delete on the insertion-ordered Map
ProgressIds == {uploadProgress[i].uploadId : i \in 1..Len(uploadProgress)}

HasProgress(up, id) == \E i \in 1..Len(up) : up[i].uploadId = id

GetProgress(up, id) == up[CHOOSE i \in 1..Len(up) : up[i].uploadId = id]

SetProgress(up, p) ==
    IF HasProgress(up, p.uploadId)
    THEN [i \in 1..Len(up) |-> IF up[i].uploadId = p.uploadId THEN p ELSE up[i]]
    ELSE Append(up, p)

DeleteProgress(up, id) == SelectSeq(up, LAMBDA p : p.uploadId # id)

\* ------------------------------------------------------ progress listeners
Connections == 1..MaxSubscribers

NoChannel == [uploadId |-> 0, state |-> "none", stream |-> << >>, published |-> << >>]

\* emitProgress (lines 1017-1026): nothing without an entry or without
\* listeners; otherwise every listener of the id enqueues the entry as it is
\* now.  `published` records the same call for every connection of the id that
\* the client has not closed.
emitProgress(ch, up, uploadId) ==
    IF ~HasProgress(up, uploadId) THEN ch
    ELSE LET progress == GetProgress(up, uploadId)
         IN  [s \in DOMAIN ch |->
                [ch[s] EXCEPT
                    !.stream = IF <<uploadId, s>> \in progressListeners
                               THEN Append(@, progress) ELSE @,
                    !.published = IF ch[s].state = "open" /\ ch[s].uploadId = uploadId
                                  THEN Append(@, progress) ELSE @]]

\* the variables of the progress stream
Subscriptions == <<progressListeners, channels>>

\* ------------------------------------------------------- FfmpegSemaphore
\* the calls of runFfmpeg, numbered in the order in which they are made
Callers == 1..MaxCallers

\* the `description` argument of the c-th call of runFfmpeg
Description(c) == IF c % 2 = 1 THEN "ffprobe" ELSE "ffmpeg"

\* new FfmpegSemaphore(limit) (lines 89-95); `queue` holds the callers whose
\* resolve function was pushed, activeOperations is the Map as a set of pairs
FfmpegSemaphore(limit) ==
    [limit |-> limit, queue |-> << >>, running |-> 0, activeOperations |-> {},
     operationIdCounter |-> 0]

\* a run() frame: not called yet
NoCall == [pc |-> "idle", operationId |-> -1, description |-> "", outcome |-> "none",
           waited |-> FALSE, releases |-> 0]

\* an acquire() that takes a free slot without counting it
acquireUncounted(sem, c) ==
    IF sem.running < sem.limit
    THEN [sem |-> sem, resolved |-> TRUE]
    ELSE [sem |-> [sem EXCEPT !.queue = Append(@, c)], resolved |-> FALSE]

\* acquire() called by c (lines 97-106): the semaphore afterwards and whether
\* the returned promise is already resolved
acquire(sem, c) ==
    IF sem.running < sem.limit
    THEN [sem |-> [sem EXCEPT !.running = @ + 1], resolved |-> TRUE]
    ELSE [sem |-> [sem EXCEPT !.queue = Append(@, c)], resolved |-> FALSE]

\* a release() that wakes the waiter that was pushed last
releaseNewest(sem) ==
    LET s1 == [sem EXCEPT !.running = @ - 1]
    IN  IF s1.queue = << >> THEN [sem |-> s1, next |-> 0]
        ELSE [sem |-> [s1 EXCEPT !.queue = SubSeq(@, 1, Len(@) - 1), !.running = @ + 1],
              next |-> s1.queue[Len(s1.queue)]]

\* a release() that frees the slot and leaves the queue alone
releaseWithoutHandover(sem) == [sem |-> [sem EXCEPT !.running = @ - 1], next |-> 0]

\* a release() that shifts the waiter off the queue and never calls it
releaseForgetsWaiter(sem) ==
    LET s1 == [sem EXCEPT !.running = @ - 1]
    IN  IF s1.queue = << >> THEN [sem |-> s1, next |-> 0]
        ELSE [sem |-> [s1 EXCEPT !.queue = Tail(@)], next |-> 0]

\* release() (lines 108-115): the semaphore afterwards and the caller whose
\* resolve function was called (0: none)
release(sem) ==
    LET s1 == [sem EXCEPT !.running = @ - 1]
    IN  IF s1.queue = << >> THEN [sem |-> s1, next |-> 0]
        ELSE [sem |-> [s1 EXCEPT !.queue = Tail(@), !.running = @ + 1],
              next |-> Head(s1.queue)]

\* getStatus() (lines 130-135), the operations as a set of pairs
getStatus ==
    [running |-> ffmpegSemaphore.running,
     operations |-> ffmpegSemaphore.activeOperations]

\* ------------------------------------------------- persisted session store
Session(url, bytes, total) ==
    [uploadSessionUrl |-> url, bytesUploaded |-> bytes, bytesTotal |-> total]

\* loadInterruptedUploads(): the file as it is on disk now
loadInterruptedUploads == disk

\* saveInterruptedUpload: read the file, set one key, hand the whole document to
\* Bun.write (not awaited); the result is the set of writes in flight
saveInterruptedUpload(videoPath, state) ==
    LET uploads == loadInterruptedUploads
    IN  pendingWrites \cup {(videoPath :> state) @@ uploads}

\* removeInterruptedUpload: read the file, delete one key, hand the whole
\* document to Bun.write (not awaited)
removeInterruptedUpload(videoPath) ==
    LET uploads == loadInterruptedUploads
    IN  pendingWrites \cup {[x \in (DOMAIN uploads) \ {videoPath} |-> uploads[x]]}

\* the videos that an upload or resume operation has named
VideosInUse == {ops[id].videoPath : id \in OpIds} \ {""}

CanWrite == Cardinality(pendingWrites) < MaxPending * Cardinality(VideosInUse)

\* ------------------------------------------------------- analysis pipeline
\* task 0 is the background scan started when the process starts, tasks
\* 1..MaxRequests are the /api/video-metadata requests in order of arrival
Tasks == 0..MaxRequests
Requests == 1..MaxRequests

NoAnalysis == [isTimebolted |-> FALSE, detectionMethod |-> ""]
\* extractTimestampFromVideo returned null
NoTimestamp == [timestamp |-> "", duration |-> ""]
NoData == [path |-> "", isTimebolted |-> FALSE, detectionMethod |-> "",
           recordingTime |-> "", duration |-> ""]
\* body of the 500 response
Failed == [NoData EXCEPT !.detectionMethod = "Failed to extract video metadata"]

NoTask ==
    [pc |-> "idle", videoPath |-> "", promise |-> -1,
     cache |-> << >>,       \* videoMetadataCache as loaded by the task
     fileHash |-> null,     \* fileHash of the handler
     timebolted |-> << >>,  \* cache.results as loaded by analyzeVideo
     timestamps |-> << >>,  \* cache.results as loaded by extractTimestampFromVideo
     hash |-> null,         \* fileHash of the function that is running
     analysis |-> NoAnalysis, timestampData |-> NoTimestamp,
     status |-> 0, result |-> NoData,
     hit |-> FALSE,         \* history: the handler returned cachedMetadata.data
     ran |-> {},            \* history: the subprocess steps the task started
     content |-> Missing,   \* history: the file when the handler hashed it
     after |-> {}]          \* history: the requests answered before this one arrived

\* lines 534-550: the hash of the first 300 bytes, null when the file cannot be read
getFileHash(content) == IF content = Missing THEN null ELSE xxHash3(content.prefix)

\* obj[v] = entry
Put(obj, v, entry) == [x \in DOMAIN obj \cup {v} |-> IF x = v THEN entry ELSE obj[x]]

\* delete obj[v] for the v in paths
Without(obj, paths) == [x \in DOMAIN obj \ paths |-> obj[x]]

\* line 964: the filename test
hasTimeboltedInName(v) == v = "lec2 FINAL.mp4"

\* line 991: cachedResult.method + '-cached'
Cached(method) ==
    IF method = "silence-analysis" THEN "silence-analysis-cached" ELSE "-cached"

\* lines 629-633: extractTimestampFromVideo loads its cache and awaits the hash
extractTimestampFromVideo(task) ==
    [task EXCEPT !.pc = "extractHash", !.timestamps = timestampCache, !.hash = null]

\* lines 961-982: analyzeVideo returns at once for a marked or named video, and
\* the caller goes on to extractTimestampFromVideo; otherwise it loads its
\* cache and awaits the hash
analyzeVideo(task) ==
    LET v == task.videoPath
        isManuallyMarked == v \in manualTracking
    IN  IF isManuallyMarked \/ hasTimeboltedInName(v)
        THEN extractTimestampFromVideo(
                 [task EXCEPT !.analysis =
                     [isTimebolted |-> TRUE,
                      detectionMethod |-> IF isManuallyMarked THEN "manual" ELSE "filename"]])
        ELSE [task EXCEPT !.pc = "analyzeHash", !.timebolted = timeboltedCache]

\* lines 1268-1278 and 2340-2350: videoData
VideoData(task) ==
    [path |-> task.videoPath,
     isTimebolted |-> task.analysis.isTimebolted,
     detectionMethod |-> task.analysis.detectionMethod,
     recordingTime |-> task.timestampData.timestamp,
     duration |-> task.timestampData.duration]

\* a promise without `finally`: a rejection leaves the map entry
SettleKeepsEntry(t, task, status, result) ==
    /\ processingVideos' = IF status = 200 THEN Without(processingVideos, {task.videoPath})
                           ELSE processingVideos
    /\ tasks' = [x \in Tasks |->
          IF x = t
          THEN [task EXCEPT !.pc = "done", !.status = status, !.result = result,
                            !.cache = << >>, !.timebolted = << >>, !.timestamps = << >>]
          ELSE IF tasks[x].pc = "waiting" /\ tasks[x].promise = t
          THEN [tasks[x] EXCEPT !.pc = "done", !.status = status, !.result = result]
          ELSE tasks[x]]

\* lines 1237-1238, 1294-1297 and 1304-1314: the processing promise of task t
\* settles; `finally` deletes the map entry, and the leader and every request
\* awaiting the promise answer with its value or with the 500 body
Settle(t, task, status, result) ==
    /\ processingVideos' = Without(processingVideos, {task.videoPath})
    /\ tasks' = [x \in Tasks |->
          IF x = t
          THEN [task EXCEPT !.pc = "done", !.status = status, !.result = result,
                            !.cache = << >>, !.timebolted = << >>, !.timestamps = << >>]
          ELSE IF tasks[x].pc = "waiting" /\ tasks[x].promise = t
          THEN [tasks[x] EXCEPT !.pc = "done", !.status = status, !.result = result]
          ELSE tasks[x]]

\* a handler that caches only results with a timestamp
FinishSkipsPartial(t, task) ==
    IF t = 0
    THEN /\ tasks' = [tasks EXCEPT ![t] = [task EXCEPT !.pc = "saveHash"]]
         /\ UNCHANGED processingVideos
    ELSE IF task.fileHash # null /\ task.timestampData # NoTimestamp
    THEN /\ tasks' = [tasks EXCEPT ![t] =
                [task EXCEPT !.pc = "writing", !.result = VideoData(task),
                             !.cache = Put(@, task.videoPath,
                                           [hash |-> task.fileHash, data |-> VideoData(task)])]]
         /\ UNCHANGED processingVideos
    ELSE Settle(t, task, 200, VideoData(task))

\* lines 2352-2353: the scan awaits the hash again before saving
\* lines 1280-1288: the handler stores videoData in its copy of the cache and
\* awaits Bun.write, or returns videoData when there is no hash
Finish(t, task) ==
    IF t = 0
    THEN /\ tasks' = [tasks EXCEPT ![t] = [task EXCEPT !.pc = "saveHash"]]
         /\ UNCHANGED processingVideos
    ELSE IF task.fileHash # null
    THEN /\ tasks' = [tasks EXCEPT ![t] =
                [task EXCEPT !.pc = "writing", !.result = VideoData(task),
                             !.cache = Put(@, task.videoPath,
                                           [hash |-> task.fileHash, data |-> VideoData(task)])]]
         /\ UNCHANGED processingVideos
    ELSE Settle(t, task, 200, VideoData(task))

\* lines 2270-2301: the scan has loaded the recordings and the metadata cache
\* and awaits the first hash, or has returned for want of videos
StartScan(allVideoPaths, cache) ==
    IF allVideoPaths = << >> THEN [NoTask EXCEPT !.pc = "done"]
    ELSE [NoTask EXCEPT !.pc = "checking", !.cache = cache]

\* a metadata cache left by an earlier run of the process
CacheEntry(v, hash) ==
    [hash |-> hash,
     data |-> [path |-> v, isTimebolted |-> FALSE, detectionMethod |-> "silence-analysis",
               recordingTime |-> OcrTimestamp, duration |-> "13m"]]
EarlierCaches ==
    {<< >>}
    \cup {(v :> CacheEntry(v, h)) : v \in Recordings,
                                    h \in {getFileHash(FirstContent), OldHash}}
    \cup {[v \in Recordings |-> CacheEntry(v, getFileHash(FirstContent))]}

\* ------------------------------------------- extractTimestampFromVideo, frames
\* line 690: the frames probed for the start timestamp, in this order
framesToTry == <<0, 3, 7, 10, 14>>

\* lines 817-823: the frames probed for the end timestamp, in this order
lastFramesToTry(totalFrames) ==
    SelectSeq(<<totalFrames - 1, totalFrames - 4, totalFrames - 8,
                totalFrames - 11, totalFrames - 15>>, LAMBDA f : f > 0)

\* what one probe yields: an exception of ffmpeg, cp or tesseract, an end frame
\* that was not written, or the cleaned OCR text, which has a date and a time
\* (its six numbers) or none
Threw == [kind |-> "threw", parts |-> << >>]
NotExtracted == [kind |-> "not extracted", parts |-> << >>]
NoPattern == [kind |-> "text", parts |-> << >>]
Text(year, month, day, hour, minute, second) ==
    [kind |-> "text", parts |-> <<year, month, day, hour, minute, second>>]
\* what the probes of the start frames and of the end frames may yield
StartProbes ==
    {Threw, NoPattern, Text(2023, 3, 7, 9, 5, 30),
     Text(2025, 3, 7, 9, 5, 30), Text(2025, 3, 7, 9, 6, 2)}
EndProbes ==
    {Threw, NotExtracted, Text(2025, 3, 7, 24, 5, 30), Text(2025, 3, 7, 10, 35, 0)}

\* lines 754-768 and 876-890: the validation of the six numbers
Validates(p) ==
    /\ p.kind = "text" /\ Len(p.parts) = 6
    /\ p.parts[1] >= 2024 /\ p.parts[1] <= 2026
    /\ p.parts[2] >= 1 /\ p.parts[2] <= 12
    /\ p.parts[3] >= 1 /\ p.parts[3] <= 31
    /\ p.parts[4] >= 0 /\ p.parts[4] <= 23
    /\ p.parts[5] >= 0 /\ p.parts[5] <= 59
    /\ p.parts[6] >= 0 /\ p.parts[6] <= 59

\* line 751: the start timestamp, `year-month-day hour:minute` without seconds
StartFormat(p) == SubSeq(p.parts, 1, 5)
\* line 882: the end timestamp, `hour:minute`
EndFormat(p) == SubSeq(p.parts, 4, 5)
\* no timestamp: null, or '' for the end timestamp
NoStamp == << >>

\* lines 584-593: formatFuzzyDuration, as <<number, unit>>
formatFuzzyDuration(seconds) ==
    IF seconds \div 3600 > 0 THEN <<seconds \div 3600, "h">>
    ELSE <<((seconds % 3600) + 30) \div 60, "m">>

\* seconds reported by ffprobe; 0 stands for a failed or unparsable probe
Durations == {0, 780}
\* packets counted by ffprobe; 0 stands for a failed probe
FrameCounts == {0, 12, 400}

\* results.find(r => r.timestamp !== null), as the stamp or NoStamp
FirstStamp(results) ==
    LET valid == {i \in 1..Len(results) : results[i].stamp # NoStamp}
    IN  IF valid = {} THEN NoStamp
        ELSE results[CHOOSE i \in valid : \A j \in valid : i <= j].stamp

NoExtraction ==
    [pc |-> "idle",
     results |-> << >>,      \* results: per probed frame, its number and stamp
     endResults |-> << >>,   \* endResults, likewise
     probes |-> << >>,       \* history: what each start probe yielded
     endProbes |-> << >>,    \* history: what each end probe yielded
     totalFrames |-> 0,
     timestamp |-> NoStamp, durationStr |-> << >>, endTimestamp |-> NoStamp,
     returned |-> "none"]    \* "null" or "data" once the function has returned


\* ------------------------------------------------------------ state shapes
NoOp ==
    [kind |-> "none", videoPath |-> "", pc |-> "none", response |-> "none",
     probe |-> NoProbe, activeAtRequest |-> FALSE, loopStarted |-> FALSE,
     acked |-> FALSE, networkError |-> FALSE]

\* `confirmed` is not a local of the loop: it is the number of leading bytes of
\* the file that the remote session holds, taking it to hold the bytes before
\* the offset the loop was started from
NoLoop ==
    [uploadUrl |-> -1, totalBytes |-> 0, startBytes |-> 0, bytesUploaded |-> 0,
     lastEmittedPercent |-> -1, lastEmitTime |-> 0, confirmed |-> 0]

Progress(id, v, bytes, total, pct, st) ==
    [uploadId |-> id, videoPath |-> v, bytesUploaded |-> bytes,
     bytesTotal |-> total, percent |-> pct, status |-> st]

\* the transfer loop of an operation is between two chunks or has one in flight
Transferring(id) == ops[id].pc \in {"read", "fetch"}

\* the transfer loop of an operation has been entered and has not returned
LoopRunning(id) == ops[id].pc \in {"read", "fetch", "json", "sync"}

\* operation ids are handed out in order
NextId == CHOOSE id \in OpIds : ops[id].kind = "none" /\ \A j \in 1..(id - 1) : ops[j].kind # "none"

HasFreeId == \E id \in OpIds : ops[id].kind = "none"

\* data/active-uploads.json when the process starts: empty, or holding one
\* session left by an earlier run
PersistedFiles ==
    {<< >>} \cup
    {(v :> Session(OldUrl, b, FileSize(v))) : v \in Videos, b \in PersistedOffsets}

\* the process has just started: nothing in memory, one of `sessionFiles` on disk;
\* n operation ids are available
InitAll(n, sessionFiles, recordingLists, manualTrackings, caches) ==
    /\ ops = [id \in 1..n |-> NoOp]
    /\ loop = [id \in 1..n |-> NoLoop]
    /\ sent = [id \in 1..n |-> << >>]
    /\ uploadProgress = << >>
    /\ cancelledUploads = {}
    /\ uploadAbortControllers = {}
    /\ aborted = {}
    /\ timers = {}
    /\ disk \in sessionFiles
    /\ pendingWrites = {}
    /\ pauseAccepted = {}
    /\ uploaded = {}
    /\ progressListeners = {}
    /\ channels = [s \in Connections |-> NoChannel]
    /\ ffmpegSemaphore = FfmpegSemaphore(MAX_CONCURRENT_FFMPEG)
    /\ callers = [c \in Callers |-> NoCall]
    /\ files = [v \in Recordings |-> FirstContent]
    /\ edits = 0
    /\ lectureRecordings \in recordingLists
    /\ manualTracking \in manualTrackings
    /\ videoMetadataCache \in caches
    /\ timeboltedCache = << >>
    /\ timestampCache = << >>
    /\ processingVideos = << >>
    /\ tasks = [t \in Tasks |->
                  IF t = 0 THEN StartScan(lectureRecordings, videoMetadataCache) ELSE NoTask]
    /\ scan = [allVideoPaths |-> lectureRecordings, checked |-> 0,
               videosToProcess |-> << >>, processed |-> 0]
    /\ extraction = NoExtraction

\* as InitAll, with no recordings, no marked videos and an empty metadata cache
InitWith(n, sessionFiles) == InitAll(n, sessionFiles, {<< >>}, {{}}, {<< >>})

\* ------------------------------------------- exits of performBackgroundUpload
\* the locals of a loop that has returned: the throttle's bookkeeping and the
\* controller's signal are never read again
Returned(lp) == [lp EXCEPT !.lastEmittedPercent = -1, !.lastEmitTime = 0, !.confirmed = 0]

\* outer catch (lines 468-491): mark error, keep the session
ErrorExit(id, o, lp, up, ch, ctrl) ==
    /\ ops' = [ops EXCEPT ![id] = [o EXCEPT !.pc = "done"]]
    /\ loop' = [loop EXCEPT ![id] = Returned(lp)]
    /\ aborted' = aborted \ {id}
    /\ uploadProgress' =
         IF HasProgress(up, id)
         THEN SetProgress(up, [GetProgress(up, id) EXCEPT !.status = "error"])
         ELSE up
    /\ channels' = emitProgress(ch, uploadProgress', id)
    /\ timers' = IF HasProgress(up, id) THEN timers \cup {<<id, "error">>} ELSE timers
    /\ uploadAbortControllers' = ctrl \ {id}
    /\ UNCHANGED cancelledUploads

\* a pause branch that marks the entry paused without emitting it
PauseExitSilent(id, o, lp, up, ch, ctrl) ==
    /\ ops' = [ops EXCEPT ![id] = [o EXCEPT !.pc = "done"]]
    /\ loop' = [loop EXCEPT ![id] = Returned(lp)]
    /\ aborted' = aborted \ {id}
    /\ cancelledUploads' = cancelledUploads \ {id}
    /\ uploadAbortControllers' = ctrl \ {id}
    /\ uploadProgress' =
         IF HasProgress(up, id)
         THEN SetProgress(up, [GetProgress(up, id) EXCEPT !.status = "paused"])
         ELSE up
    /\ channels' = ch
    /\ timers' = timers \cup {<<id, "paused">>}

\* the pause branch at the top of the loop (lines 338-358)
PauseExit(id, o, lp, up, ch, ctrl) ==
    /\ ops' = [ops EXCEPT ![id] = [o EXCEPT !.pc = "done"]]
    /\ loop' = [loop EXCEPT ![id] = Returned(lp)]
    /\ aborted' = aborted \ {id}
    /\ cancelledUploads' = cancelledUploads \ {id}
    /\ uploadAbortControllers' = ctrl \ {id}
    /\ uploadProgress' =
         IF HasProgress(up, id)
         THEN SetProgress(up, [GetProgress(up, id) EXCEPT !.status = "paused"])
         ELSE up
    /\ channels' = emitProgress(ch, uploadProgress', id)
    /\ timers' = timers \cup {<<id, "paused">>}

\* next evaluation of `while (bytesUploaded < totalBytes)` up to the next await
LoopTop(id, o, lp, up, ch, ctrl) ==
    IF ~(lp.bytesUploaded < lp.totalBytes)
    THEN ErrorExit(id, o, lp, up, ch, ctrl)
    ELSE IF id \in cancelledUploads
    THEN PauseExit(id, o, lp, up, ch, ctrl)
    ELSE /\ ops' = [ops EXCEPT ![id] = [o EXCEPT !.pc = "read"]]
         /\ loop' = [loop EXCEPT ![id] = lp]
         /\ uploadProgress' = up
         /\ channels' = ch
         /\ uploadAbortControllers' = ctrl
         /\ UNCHANGED <<cancelledUploads, timers, aborted>>

\* performBackgroundUpload from its call to its first await (lines 317-364)
performBackgroundUpload(id, o, uploadUrl, totalBytes, startFromByte, up, ch) ==
    LET lp == [loop[id] EXCEPT !.uploadUrl = uploadUrl,
                               !.totalBytes = totalBytes,
                               !.bytesUploaded = startFromByte,
                               !.confirmed = startFromByte,
                               !.lastEmittedPercent = -1,
                               !.lastEmitTime = 0]
    IN  LoopTop(id, [o EXCEPT !.loopStarted = TRUE], lp, up, ch,
                uploadAbortControllers \cup {id})


\* ------------------------------------------------------------ /api/upload
\* variables no request handler and no loop step touches by itself
Others == <<sent, disk, pendingWrites, pauseAccepted, uploaded>>

\* a request that is turned down after its progress entry was created
UploadRejectedLate(v, exists, configured) ==
    /\ HasFreeId
    /\ ~exists \/ ~configured
    /\ ops' = [ops EXCEPT ![NextId] =
                 [NoOp EXCEPT !.kind = "upload", !.videoPath = v, !.pc = "done",
                              !.response = IF ~exists THEN "NotFound" ELSE "NotConfigured"]]
    /\ uploadProgress' =
         SetProgress(uploadProgress, Progress(NextId, v, 0, FileSize(v), 0, "uploading"))
    /\ UNCHANGED <<loop, cancelledUploads, uploadAbortControllers, aborted, timers>>
    /\ UNCHANGED Others
    /\ UNCHANGED Subscriptions
    /\ UNCHANGED <<Limiter, Analysis, extraction>>

\* lines 1903-1952, the request is turned down before any state is created:
\* 404 when the file is missing, 400 when the Drive credentials are
UploadRejected(v, exists, configured) ==
    /\ HasFreeId
    /\ ~exists \/ ~configured
    /\ ops' = [ops EXCEPT ![NextId] =
                 [NoOp EXCEPT !.kind = "upload", !.videoPath = v, !.pc = "done",
                              !.response = IF ~exists THEN "NotFound" ELSE "NotConfigured"]]
    /\ UNCHANGED <<loop, uploadProgress, cancelledUploads, uploadAbortControllers,
                   aborted, timers>>
    /\ UNCHANGED Others
    /\ UNCHANGED Subscriptions
    /\ UNCHANGED <<Limiter, Analysis, extraction>>

\* lines 1903-1994: validation passed; the progress entry is created and
\* emitted, and the handler suspends in getAccessToken / the session-initiating
\* POST
UploadRequest(v) ==
    /\ HasFreeId
    /\ LET id == NextId
       IN  /\ ops' = [ops EXCEPT ![id] =
                        [NoOp EXCEPT !.kind = "upload", !.videoPath = v, !.pc = "init",
                                     !.activeAtRequest =
                                         \E j \in OpIds : ops[j].videoPath = v /\ Transferring(j)]]
           /\ loop' = [loop EXCEPT ![id] = [NoLoop EXCEPT !.totalBytes = FileSize(v)]]
           /\ uploadProgress' =
                SetProgress(uploadProgress, Progress(id, v, 0, FileSize(v), 0, "uploading"))
           /\ channels' = emitProgress(channels, uploadProgress', id)
    /\ UNCHANGED <<sent, cancelledUploads, uploadAbortControllers, aborted, timers,
                   disk, pendingWrites, pauseAccepted, uploaded, progressListeners>>
    /\ UNCHANGED <<Limiter, Analysis, extraction>>

\* lines 1993-2018 and 2047-2053, failure: no access token, no Location header
\* or a rejected fetch; the catch block answers 500 and leaves the progress
\* entry as it is
UploadInitFails(id) ==
    /\ ops[id].kind = "upload" /\ ops[id].pc = "init"
    /\ ops' = [ops EXCEPT ![id].pc = "done", ![id].response = "Error500"]
    /\ UNCHANGED <<loop, uploadProgress, cancelledUploads, uploadAbortControllers,
                   aborted, timers>>
    /\ UNCHANGED Others
    /\ UNCHANGED Subscriptions
    /\ UNCHANGED <<Limiter, Analysis, extraction>>

\* lines 2015-2045: the remote returned a session url; persist the zero-progress
\* session, start the transfer loop without awaiting it, answer with the id
UploadInit(id) ==
    /\ ops[id].kind = "upload" /\ ops[id].pc = "init"
    /\ CanWrite
    /\ LET v == ops[id].videoPath
           uploadUrl == id
           totalBytes == loop[id].totalBytes
       IN  /\ pendingWrites' = saveInterruptedUpload(v, Session(uploadUrl, 0, totalBytes))
           /\ performBackgroundUpload(id, [ops[id] EXCEPT !.response = "started"],
                                      uploadUrl, totalBytes, 0, uploadProgress, channels)
    /\ UNCHANGED <<sent, disk, pauseAccepted, uploaded, progressListeners>>
    /\ UNCHANGED <<Limiter, Analysis, extraction>>

\* ------------------------------------------------------ /api/pause-upload
\* lines 2069-2076: the first entry of uploadProgress, in insertion order, whose
\* videoPath matches (0: none)
FindUploadId(v) ==
    LET hits == {i \in 1..Len(uploadProgress) : uploadProgress[i].videoPath = v}
    IN  IF hits = {} THEN 0
        ELSE uploadProgress[CHOOSE i \in hits : \A j \in hits : i <= j].uploadId

\* lines 2057-2099, the accepted case (an id was found): flag it and abort its
\* controller if it has one
PauseRequest(v) ==
    /\ FindUploadId(v) # 0
    /\ LET uploadId == FindUploadId(v)
       IN  /\ cancelledUploads' = cancelledUploads \cup {uploadId}
           /\ aborted' = IF uploadId \in uploadAbortControllers
                         THEN aborted \cup {uploadId} ELSE aborted
    /\ pauseAccepted' =
         pauseAccepted \cup
            {id \in OpIds : /\ ops[id].videoPath = v /\ Transferring(id)
                            /\ \A j \in OpIds \ {id} :
                                  ops[j].videoPath = v => ops[j].pc \in {"none", "done"}}
    /\ UNCHANGED <<ops, loop, sent, uploadProgress, uploadAbortControllers, timers,
                   disk, pendingWrites, uploaded>>
    /\ UNCHANGED Subscriptions
    /\ UNCHANGED <<Limiter, Analysis, extraction>>

\* ------------------------------------------------- the transfer loop's steps
\* a chunk end that is not clamped to the file size
ChunkEndUnclamped(start, totalBytes) == start + CHUNK_SIZE

\* line 361: end of the chunk that starts at `start` (exclusive)
ChunkEnd(start, totalBytes) == Min(start + CHUNK_SIZE, totalBytes)

\* lines 364-378: the chunk has been read from the file; fetch is called with
\* the controller's signal and the loop awaits its promise.  With an aborted
\* signal nothing is sent and the promise is a rejected one (ChunkAborted).
ReadDone(id) ==
    /\ ops[id].pc = "read"
    /\ ops' = [ops EXCEPT ![id].pc = "fetch"]
    /\ sent' = IF id \in aborted THEN sent
               ELSE [sent EXCEPT ![id] =
                        Append(@, [start |-> loop[id].bytesUploaded,
                                   end |-> ChunkEnd(loop[id].bytesUploaded,
                                                    loop[id].totalBytes) - 1])]
    /\ UNCHANGED <<loop, uploadProgress, cancelledUploads,
                   uploadAbortControllers, timers, aborted, channels>>
    /\ UNCHANGED <<disk, pendingWrites, pauseAccepted, uploaded, progressListeners>>
    /\ UNCHANGED <<Limiter, Analysis, extraction>>

\* The remote session after it answered `status` to the chunk [start, end):
\* with 308, 200 or 201 it has stored the chunk if the chunk begins where its
\* stored bytes end; with any other status, or for a chunk that leaves a gap,
\* it holds what it held
Accepted(status, start, end, confirmed) ==
    IF status \in {200, 201, 308} /\ start = confirmed THEN end ELSE confirmed

\* lines 380-452: a response to the chunk PUT arrived, whatever its status; the
\* remote answers 200/201 only to the chunk that ends the file, and only when
\* it holds every byte before that chunk.
\* Date.now() reads StartTime before the loop's first emission and `elapsed`
\* after its last emission otherwise (only differences of readings are used)
ChunkResponse(id, status, elapsed) ==
    /\ ops[id].pc = "fetch" /\ id \notin aborted
    /\ loop[id].lastEmitTime = 0 => elapsed = 0
    /\ status \in {200, 201} =>
          /\ ChunkEnd(loop[id].bytesUploaded, loop[id].totalBytes) = loop[id].totalBytes
          /\ loop[id].bytesUploaded = loop[id].confirmed
    /\ LET lp == loop[id]
           v == ops[id].videoPath
           end == ChunkEnd(lp.bytesUploaded, lp.totalBytes)
           percent == RoundPercent(end, lp.totalBytes)
           now == IF lp.lastEmitTime = 0 THEN StartTime ELSE lp.lastEmitTime + elapsed
           timeSinceLastEmit == now - lp.lastEmitTime
           emit == percent # lp.lastEmittedPercent /\ timeSinceLastEmit >= EMIT_INTERVAL_MS
           has == HasProgress(uploadProgress, id)
           up == IF emit /\ has
                 THEN SetProgress(uploadProgress,
                                  [GetProgress(uploadProgress, id) EXCEPT
                                      !.bytesUploaded = end, !.percent = percent])
                 ELSE uploadProgress
           ch == IF emit /\ has THEN emitProgress(channels, up, id) ELSE channels
           lp2 == [lp EXCEPT !.bytesUploaded = end,
                             !.confirmed = Accepted(status, lp.bytesUploaded, end, @),
                             !.lastEmittedPercent = IF emit /\ has THEN percent ELSE @,
                             !.lastEmitTime = IF emit /\ has THEN now ELSE @]
           o == [ops[id] EXCEPT
                    !.acked = @ \/ (status \in {200, 201} /\ end = lp.totalBytes)]
       IN  /\ emit => CanWrite
           /\ pendingWrites' =
                IF emit
                THEN saveInterruptedUpload(v, Session(lp.uploadUrl, end, lp.totalBytes))
                ELSE pendingWrites
           /\ IF status = 200 \/ status = 201
              THEN /\ ops' = [ops EXCEPT ![id] = [o EXCEPT !.pc = "json"]]
                   /\ loop' = [loop EXCEPT ![id] = lp2]
                   /\ uploadProgress' = up
                   /\ channels' = ch
                   /\ UNCHANGED <<cancelledUploads, uploadAbortControllers, timers,
                                  aborted>>
              ELSE LoopTop(id, o, lp2, up, ch, uploadAbortControllers)
    /\ UNCHANGED <<sent, disk, pauseAccepted, uploaded, progressListeners>>
    /\ UNCHANGED <<Limiter, Analysis, extraction>>

\* line 367: the 10-second timer of the chunk in flight fires
ChunkTimeout(id) ==
    /\ ops[id].pc = "fetch" /\ id \notin aborted
    /\ aborted' = aborted \cup {id}
    /\ UNCHANGED <<ops, loop, uploadProgress, cancelledUploads,
                   uploadAbortControllers, timers>>
    /\ UNCHANGED Others
    /\ UNCHANGED Subscriptions
    /\ UNCHANGED <<Limiter, Analysis, extraction>>

\* lines 453-459: the fetch rejects because the signal is aborted (by a pause
\* or a timeout, while the request was in flight or before the call); the
\* error is swallowed and the loop goes round
ChunkAborted(id) ==
    /\ ops[id].pc = "fetch" /\ id \in aborted
    /\ LoopTop(id, ops[id], loop[id], uploadProgress, channels, uploadAbortControllers)
    /\ UNCHANGED Others
    /\ UNCHANGED progressListeners
    /\ UNCHANGED <<Limiter, Analysis, extraction>>

\* a network error after which the session of the video is deleted
ChunkNetworkErrorDropsSession(id) ==
    /\ ops[id].pc = "fetch" /\ id \notin aborted
    /\ CanWrite
    /\ ErrorExit(id, [ops[id] EXCEPT !.networkError = TRUE], loop[id], uploadProgress,
                 channels, uploadAbortControllers)
    /\ pendingWrites' = removeInterruptedUpload(ops[id].videoPath)
    /\ UNCHANGED <<sent, disk, pauseAccepted, uploaded, progressListeners>>
    /\ UNCHANGED <<Limiter, Analysis, extraction>>

\* lines 460-463 and 468-491: the fetch rejects with a network error
ChunkNetworkError(id) ==
    /\ ops[id].pc = "fetch" /\ id \notin aborted
    /\ ErrorExit(id, [ops[id] EXCEPT !.networkError = TRUE], loop[id], uploadProgress,
                 channels, uploadAbortControllers)
    /\ UNCHANGED Others
    /\ UNCHANGED progressListeners
    /\ UNCHANGED <<Limiter, Analysis, extraction>>

\* lines 415-449: the 200/201 body has been parsed; mark complete, delete the
\* session, run the post-completion effect up to `await execAsync(...)`: the
\* recording of the video (found by date and studentGroup) gets uploaded =
\* true and the list is handed to Bun.write, which is taken to land at once
JsonDone(id) ==
    /\ ops[id].pc = "json"
    /\ CanWrite
    /\ LET has == HasProgress(uploadProgress, id)
       IN  /\ uploadProgress' =
                IF has
                THEN SetProgress(uploadProgress,
                                 [GetProgress(uploadProgress, id) EXCEPT
                                     !.status = "complete",
                                     !.bytesUploaded = loop[id].totalBytes,
                                     !.percent = 100])
                ELSE uploadProgress
           /\ timers' = IF has THEN timers \cup {<<id, "complete">>} ELSE timers
           /\ channels' = emitProgress(channels, uploadProgress', id)
    /\ pendingWrites' = removeInterruptedUpload(ops[id].videoPath)
    /\ uploadAbortControllers' = uploadAbortControllers \ {id}
    /\ uploaded' = uploaded \cup {ops[id].videoPath}
    /\ ops' = [ops EXCEPT ![id].pc = "sync"]
    /\ UNCHANGED <<loop, sent, cancelledUploads, aborted, disk, pauseAccepted,
                   progressListeners>>
    /\ UNCHANGED <<Limiter, Analysis, extraction>>

\* lines 449-451: `bun run sync` exits; a non-zero exit rejects execAsync inside
\* the chunk's try block, whose catch (lines 453-464) swallows the error when the
\* signal is aborted and rethrows it to the outer catch otherwise
SyncDone(id, ok) ==
    /\ ops[id].pc = "sync"
    /\ IF ok
       THEN /\ ops' = [ops EXCEPT ![id].pc = "done"]
            /\ loop' = [loop EXCEPT ![id] = Returned(@)]
            /\ aborted' = aborted \ {id}
            /\ UNCHANGED <<uploadProgress, cancelledUploads, uploadAbortControllers,
                           timers, channels>>
       ELSE IF id \in aborted
       THEN LoopTop(id, ops[id], loop[id], uploadProgress, channels,
                    uploadAbortControllers)
       ELSE ErrorExit(id, ops[id], loop[id], uploadProgress, channels,
                      uploadAbortControllers)
    /\ UNCHANGED Others
    /\ UNCHANGED progressListeners
    /\ UNCHANGED <<Limiter, Analysis, extraction>>

\* ----------------------------------------------------- /api/resume-upload
\* lines 1379-1406, the request is turned down before any state is created:
\* 404 when the file holds no session for the video, 400 without credentials
ResumeRejected(v, configured) ==
    /\ HasFreeId
    /\ v \notin DOMAIN loadInterruptedUploads \/ ~configured
    /\ ops' = [ops EXCEPT ![NextId] =
                 [NoOp EXCEPT !.kind = "resume", !.videoPath = v, !.pc = "done",
                              !.response = IF v \notin DOMAIN loadInterruptedUploads
                                           THEN "NoInterruptedUpload"
                                           ELSE "NotConfigured"]]
    /\ UNCHANGED <<loop, uploadProgress, cancelledUploads, uploadAbortControllers,
                   aborted, timers>>
    /\ UNCHANGED Others
    /\ UNCHANGED Subscriptions
    /\ UNCHANGED <<Limiter, Analysis, extraction>>

\* lines 1365-1416: the persisted session of the video is loaded; the handler
\* suspends in import('googleapis') / getAccessToken
ResumeRequest(v) ==
    /\ HasFreeId
    /\ v \in DOMAIN loadInterruptedUploads
    /\ LET id == NextId
           uploadState == loadInterruptedUploads[v]
       IN  /\ ops' = [ops EXCEPT ![id] =
                        [NoOp EXCEPT !.kind = "resume", !.videoPath = v, !.pc = "token",
                                     !.activeAtRequest =
                                         \E j \in OpIds : ops[j].videoPath = v /\ Transferring(j)]]
           /\ loop' = [loop EXCEPT ![id] =
                         [NoLoop EXCEPT !.uploadUrl = uploadState.uploadSessionUrl,
                                        !.startBytes = uploadState.bytesUploaded,
                                        !.totalBytes = uploadState.bytesTotal]]
    /\ UNCHANGED <<sent, uploadProgress, cancelledUploads, uploadAbortControllers,
                   aborted, timers, disk, pendingWrites, pauseAccepted, uploaded>>
    /\ UNCHANGED Subscriptions
    /\ UNCHANGED <<Limiter, Analysis, extraction>>

\* lines 1416-1445: the access token arrived; create the progress entry from the
\* saved state, emit it and send the zero-length probe.  Without a token the catch block
\* (lines 1536-1550) answers 500.
ResumeToken(id, ok) ==
    /\ ops[id].kind = "resume" /\ ops[id].pc = "token"
    /\ IF ok
       THEN /\ uploadProgress' =
                 SetProgress(uploadProgress,
                             Progress(id, ops[id].videoPath, loop[id].startBytes,
                                      loop[id].totalBytes,
                                      RoundPercent(loop[id].startBytes, loop[id].totalBytes),
                                      "uploading"))
            /\ channels' = emitProgress(channels, uploadProgress', id)
            /\ ops' = [ops EXCEPT ![id].pc = "probe"]
       ELSE /\ ops' = [ops EXCEPT ![id].pc = "done", ![id].response = "Error500"]
            /\ UNCHANGED <<uploadProgress, channels>>
    /\ UNCHANGED <<loop, cancelledUploads, uploadAbortControllers, aborted, timers>>
    /\ UNCHANGED Others
    /\ UNCHANGED progressListeners
    /\ UNCHANGED <<Limiter, Analysis, extraction>>

\* a resume that trusts the saved position whatever the probe reports
ActualBytesUploadedLocal(status, range, startBytes) == startBytes

\* lines 1473-1489: rangeHeader.match(/bytes=0-(\d+)/) and parseInt(match[1]) + 1
\* on a 308; without a header or a match, and on every other status that reaches
\* line 1514, the saved position is kept
ActualBytesUploaded(status, range, startBytes) ==
    IF status = 308 /\ range # NoRange /\ range.first = 0
    THEN range.last + 1
    ELSE startBytes

\* an expiry answer that leaves the session file alone
ProbeExpiredKeepsSession(id, o) ==
    /\ CanWrite
    /\ pendingWrites' = pendingWrites
    /\ ops' = [ops EXCEPT ![id] = [o EXCEPT !.pc = "done", !.response = "SessionExpired"]]
    /\ UNCHANGED <<loop, uploadProgress, cancelledUploads, uploadAbortControllers,
                   aborted, timers, channels>>

\* lines 1447-1471: the probe was answered 404 or 410
ProbeExpired(id, o) ==
    /\ CanWrite
    /\ pendingWrites' = removeInterruptedUpload(ops[id].videoPath)
    /\ ops' = [ops EXCEPT ![id] = [o EXCEPT !.pc = "done", !.response = "SessionExpired"]]
    /\ UNCHANGED <<loop, uploadProgress, cancelledUploads, uploadAbortControllers,
                   aborted, timers, channels>>

\* lines 1490-1512: the probe was answered 200 or 201
ProbeComplete(id, o) ==
    /\ CanWrite
    /\ pendingWrites' = removeInterruptedUpload(ops[id].videoPath)
    /\ uploadProgress' =
         IF HasProgress(uploadProgress, id)
         THEN SetProgress(uploadProgress,
                          [GetProgress(uploadProgress, id) EXCEPT
                              !.status = "complete", !.percent = 100])
         ELSE uploadProgress
    /\ channels' = emitProgress(channels, uploadProgress', id)
    /\ ops' = [ops EXCEPT ![id] = [o EXCEPT !.pc = "done", !.response = "AlreadyComplete"]]
    /\ UNCHANGED <<loop, cancelledUploads, uploadAbortControllers, aborted, timers>>

\* lines 1473-1535: every other answer starts the transfer loop
ProbeContinue(id, o, status, range) ==
    /\ performBackgroundUpload(id, [o EXCEPT !.response = "started"],
                               loop[id].uploadUrl, loop[id].totalBytes,
                               ActualBytesUploaded(status, range, loop[id].startBytes),
                               uploadProgress, channels)
    /\ UNCHANGED pendingWrites

\* lines 1447-1535: the probe was answered
ResumeProbe(id, status, range) ==
    /\ ops[id].kind = "resume" /\ ops[id].pc = "probe"
    /\ status # 308 => range = NoRange
    /\ LET o == [ops[id] EXCEPT !.probe = [status |-> status, range |-> range]]
       IN  IF status = 404 \/ status = 410 THEN ProbeExpired(id, o)
           ELSE IF status = 200 \/ status = 201 THEN ProbeComplete(id, o)
           ELSE ProbeContinue(id, o, status, range)
    /\ UNCHANGED <<sent, disk, pauseAccepted, uploaded, progressListeners>>
    /\ UNCHANGED <<Limiter, Analysis, extraction>>

\* lines 1438 and 1536-1550: the probe request itself is rejected
ResumeProbeFails(id) ==
    /\ ops[id].kind = "resume" /\ ops[id].pc = "probe"
    /\ ops' = [ops EXCEPT ![id].pc = "done", ![id].response = "Error500"]
    /\ UNCHANGED <<loop, uploadProgress, cancelledUploads, uploadAbortControllers,
                   aborted, timers>>
    /\ UNCHANGED Others
    /\ UNCHANGED Subscriptions
    /\ UNCHANGED <<Limiter, Analysis, extraction>>

\* ------------------------------------------------------------ environment
\* a cleanup callback that also deletes the session of the operation's video
CleanupFiresDropsSession(t) ==
    /\ t \in timers
    /\ CanWrite
    /\ timers' = timers \ {t}
    /\ uploadProgress' = DeleteProgress(uploadProgress, t[1])
    /\ progressListeners' = {l \in progressListeners : l[1] # t[1]}
    /\ uploadAbortControllers' =
         IF t[2] = "paused" THEN uploadAbortControllers
         ELSE uploadAbortControllers \ {t[1]}
    /\ pendingWrites' = removeInterruptedUpload(ops[t[1]].videoPath)
    /\ UNCHANGED <<ops, loop, cancelledUploads, aborted, channels, sent, disk,
                   pauseAccepted, uploaded>>
    /\ UNCHANGED <<Limiter, Analysis, extraction>>

\* a cleanup callback set with setTimeout runs (lines 352-355, 428-432, 482-486)
CleanupFires(t) ==
    /\ t \in timers
    /\ timers' = timers \ {t}
    /\ uploadProgress' = DeleteProgress(uploadProgress, t[1])
    /\ progressListeners' = {l \in progressListeners : l[1] # t[1]}
    /\ uploadAbortControllers' =
         IF t[2] = "paused" THEN uploadAbortControllers
         ELSE uploadAbortControllers \ {t[1]}
    /\ UNCHANGED <<ops, loop, cancelledUploads, aborted, channels>>
    /\ UNCHANGED Others
    /\ UNCHANGED <<Limiter, Analysis, extraction>>

\* one of the documents handed to Bun.write reaches the file
WriteLands(w) ==
    /\ w \in pendingWrites
    /\ disk' = w
    /\ pendingWrites' = pendingWrites \ {w}
    /\ UNCHANGED <<ops, loop, sent, uploadProgress, cancelledUploads,
                   uploadAbortControllers, aborted, timers, pauseAccepted, uploaded>>
    /\ UNCHANGED Subscriptions
    /\ UNCHANGED <<Limiter, Analysis, extraction>>

\* ------------------------------------------------ /api/upload-progress/<id>
\* a connection that is sent no snapshot when it is opened
SubscribeNoSnapshot(s, uploadId) ==
    /\ channels[s].state = "none"
    /\ progressListeners' = progressListeners \cup {<<uploadId, s>>}
    /\ channels' = [channels EXCEPT ![s] =
                       [uploadId |-> uploadId, state |-> "open", stream |-> << >>,
                        published |-> IF HasProgress(uploadProgress, uploadId)
                                      THEN <<GetProgress(uploadProgress, uploadId)>>
                                      ELSE << >>]]
    /\ UNCHANGED <<ops, loop, uploadProgress, cancelledUploads, uploadAbortControllers,
                   aborted, timers>>
    /\ UNCHANGED Others
    /\ UNCHANGED <<Limiter, Analysis, extraction>>

\* lines 1045-1068: a client opens the event stream of an upload id; its `send`
\* is registered and the current entry, if there is one, is sent at once
Subscribe(s, uploadId) ==
    /\ channels[s].state = "none"
    /\ progressListeners' = progressListeners \cup {<<uploadId, s>>}
    /\ LET initial == IF HasProgress(uploadProgress, uploadId)
                      THEN <<GetProgress(uploadProgress, uploadId)>>
                      ELSE << >>
       IN  channels' = [channels EXCEPT ![s] =
                          [uploadId |-> uploadId, state |-> "open", stream |-> initial,
                           published |-> initial]]
    /\ UNCHANGED <<ops, loop, uploadProgress, cancelledUploads, uploadAbortControllers,
                   aborted, timers>>
    /\ UNCHANGED Others
    /\ UNCHANGED <<Limiter, Analysis, extraction>>

\* lines 1070-1079: the client closes the connection; the abort listener of the
\* request removes `send` from the listeners of the id
Close(s) ==
    /\ channels[s].state = "open"
    /\ progressListeners' = progressListeners \ {<<channels[s].uploadId, s>>}
    /\ channels' = [channels EXCEPT ![s].state = "closed"]
    /\ UNCHANGED <<ops, loop, uploadProgress, cancelledUploads, uploadAbortControllers,
                   aborted, timers>>
    /\ UNCHANGED Others
    /\ UNCHANGED <<Limiter, Analysis, extraction>>

\* ------------------------------------------------------------- runFfmpeg
\* the variables of the upload engine and of the progress stream
Uploads == <<ops, loop, sent, uploadProgress, cancelledUploads, uploadAbortControllers,
             aborted, timers, disk, pendingWrites, pauseAccepted, uploaded, progressListeners,
             channels>>

\* lines 117-119 and 143-145: the c-th runFfmpeg(command, description) calls
\* run(), which takes the next operation id and calls acquire(); the frame
\* suspends on the returned promise, resolved or not
RunCall(c) ==
    /\ callers[c].pc = "idle"
    /\ c = ffmpegSemaphore.operationIdCounter + 1
    /\ LET operationId == ffmpegSemaphore.operationIdCounter
           a == acquire([ffmpegSemaphore EXCEPT !.operationIdCounter = @ + 1], c)
       IN  /\ ffmpegSemaphore' = a.sem
           /\ callers' = [callers EXCEPT ![c] =
                             [NoCall EXCEPT !.pc = IF a.resolved THEN "admitted" ELSE "queued",
                                            !.operationId = operationId,
                                            !.waited = ~a.resolved,
                                            !.description = Description(c)]]
    /\ UNCHANGED <<Uploads, Analysis, extraction>>

\* lines 121-123: the frame resumes after `await this.acquire()`, records its
\* operation and calls fn(), i.e. execAsync(command)
RunAdmitted(c) ==
    /\ callers[c].pc = "admitted"
    /\ ffmpegSemaphore' =
         [ffmpegSemaphore EXCEPT !.activeOperations =
             {o \in @ : o[1] # callers[c].operationId}
                \cup {<<callers[c].operationId, callers[c].description>>}]
    /\ callers' = [callers EXCEPT ![c].pc = "running"]
    /\ UNCHANGED <<Uploads, Analysis, extraction>>

\* a run() without `finally`: a rejected fn() leaves the slot taken
RunSettlesLeaks(c, ok) ==
    /\ callers[c].pc = "running"
    /\ LET sem == [ffmpegSemaphore EXCEPT !.activeOperations =
                      {o \in @ : o[1] # callers[c].operationId}]
           r == IF ok THEN release(sem) ELSE [sem |-> ffmpegSemaphore, next |-> 0]
       IN  /\ ffmpegSemaphore' = r.sem
           /\ callers' = [x \in Callers |->
                IF x = c
                THEN [callers[c] EXCEPT !.pc = "settled", !.description = "",
                                        !.outcome = IF ok THEN "fulfilled" ELSE "rejected",
                                        !.releases = IF ok THEN @ + 1 ELSE @]
                ELSE IF x = r.next THEN [callers[x] EXCEPT !.pc = "admitted"]
                ELSE callers[x]]
    /\ UNCHANGED <<Uploads, Analysis, extraction>>

\* lines 123-127: the ffmpeg process exits; whether fn() fulfilled or rejected,
\* `finally` deletes the operation and calls release(), which resolves the
\* promise of the waiter it shifts from the queue
RunSettles(c, ok) ==
    /\ callers[c].pc = "running"
    /\ LET sem == [ffmpegSemaphore EXCEPT !.activeOperations =
                      {o \in @ : o[1] # callers[c].operationId}]
           r == release(sem)
       IN  /\ ffmpegSemaphore' = r.sem
           /\ callers' = [x \in Callers |->
                IF x = c
                THEN [callers[c] EXCEPT !.pc = "settled", !.description = "",
                                        !.outcome = IF ok THEN "fulfilled" ELSE "rejected",
                                        !.releases = @ + 1]
                ELSE IF x = r.next THEN [callers[x] EXCEPT !.pc = "admitted"]
                ELSE callers[x]]
    /\ UNCHANGED <<Uploads, Analysis, extraction>>

\* ------------------------------------------------------ /api/video-metadata
\* everything the request handler and the scan leave alone
NotAnalysis == <<Uploads, Limiter, extraction>>

\* the lowest request id not yet used
NextRequest == CHOOSE r \in Requests :
    tasks[r].pc = "idle" /\ \A j \in 1..(r - 1) : tasks[j].pc # "idle"

\* the handler without lines 1235-1239: every request starts its own promise
MetadataRequestNoJoin(v) ==
    /\ \E r \in Requests : tasks[r].pc = "idle"
    /\ LET r == NextRequest
           answered == {x \in Requests : tasks[x].pc = "done"}
       IN  /\ tasks' = [tasks EXCEPT ![r] =
                  [NoTask EXCEPT !.pc = "hashing", !.videoPath = v, !.promise = r,
                                 !.cache = videoMetadataCache,
                                 !.after = answered]]
           /\ processingVideos' = Put(processingVideos, v, r)
    /\ UNCHANGED <<files, edits, lectureRecordings, manualTracking, scan,
                   videoMetadataCache, timeboltedCache, timestampCache, NotAnalysis>>

\* lines 1233-1250 and 1298-1301: GET /api/video-metadata?path=v.  A request
\* whose path is in processingVideos awaits the stored promise.  Any other
\* request starts the processing promise, which loads the metadata cache and
\* suspends in getFileHash, and stores it in the map
MetadataRequest(v) ==
    /\ \E r \in Requests : tasks[r].pc = "idle"
    /\ LET r == NextRequest
           answered == {x \in Requests : tasks[x].pc = "done"}
       IN  IF v \in DOMAIN processingVideos
           THEN /\ tasks' = [tasks EXCEPT ![r] =
                       [NoTask EXCEPT !.pc = "waiting", !.videoPath = v,
                                      !.promise = processingVideos[v],
                                      !.after = answered]]
                /\ UNCHANGED processingVideos
           ELSE /\ tasks' = [tasks EXCEPT ![r] =
                       [NoTask EXCEPT !.pc = "hashing", !.videoPath = v, !.promise = r,
                                      !.cache = videoMetadataCache,
                                      !.after = answered]]
                /\ processingVideos' = Put(processingVideos, v, r)
    /\ UNCHANGED <<files, edits, lectureRecordings, manualTracking, scan,
                   videoMetadataCache, timeboltedCache, timestampCache, NotAnalysis>>

\* a cache check that ignores the hash: any entry of the path is returned
HashReadAnyEntry(r) ==
    /\ r \in Requests
    /\ tasks[r].pc = "hashing"
    /\ LET v == tasks[r].videoPath
           fileHash == getFileHash(files[v])
           task == [tasks[r] EXCEPT !.fileHash = fileHash, !.content = files[v]]
       IN  IF v \in DOMAIN task.cache
           THEN Settle(r, [task EXCEPT !.hit = TRUE], 200, task.cache[v].data)
           ELSE /\ tasks' = [tasks EXCEPT ![r] = analyzeVideo(task)]
                /\ UNCHANGED processingVideos
    /\ UNCHANGED <<files, edits, lectureRecordings, manualTracking, scan,
                   videoMetadataCache, timeboltedCache, timestampCache, NotAnalysis>>

\* lines 1250-1263: the hash arrives.  With an entry of the same hash in the
\* loaded cache the promise resolves with the entry's data; otherwise the
\* handler calls analyzeVideo
HashRead(r) ==
    /\ r \in Requests
    /\ tasks[r].pc = "hashing"
    /\ LET v == tasks[r].videoPath
           fileHash == getFileHash(files[v])
           task == [tasks[r] EXCEPT !.fileHash = fileHash, !.content = files[v]]
           cachedMetadata == IF v \in DOMAIN task.cache THEN task.cache[v]
                             ELSE [hash |-> null, data |-> NoData]
       IN  IF v \in DOMAIN task.cache /\ fileHash # null /\ cachedMetadata.hash = fileHash
           THEN Settle(r, [task EXCEPT !.hit = TRUE], 200, cachedMetadata.data)
           ELSE /\ tasks' = [tasks EXCEPT ![r] = analyzeVideo(task)]
                /\ UNCHANGED processingVideos
    /\ UNCHANGED <<files, edits, lectureRecordings, manualTracking, scan,
                   videoMetadataCache, timeboltedCache, timestampCache, NotAnalysis>>

\* lines 982-996: the hash arrives in analyzeVideo.  With an entry of the same
\* hash in the loaded cache the function returns the cached classification;
\* otherwise detectTimeboltBySilence starts ffmpeg through runFfmpeg
AnalyzeHashRead(t) ==
    /\ tasks[t].pc = "analyzeHash"
    /\ LET v == tasks[t].videoPath
           fileHash == getFileHash(files[v])
           cache == tasks[t].timebolted
           task == [tasks[t] EXCEPT !.hash = fileHash]
       IN  tasks' = [tasks EXCEPT ![t] =
              IF v \in DOMAIN cache /\ fileHash # null /\ cache[v].hash = fileHash
              THEN extractTimestampFromVideo(
                       [task EXCEPT !.analysis =
                           [isTimebolted |-> cache[v].isTimebolted,
                            detectionMethod |-> Cached(cache[v].method)]])
              ELSE [task EXCEPT !.pc = "classifying",
                                !.ran = @ \cup {"classification"}]]
    /\ UNCHANGED <<files, edits, lectureRecordings, manualTracking, scan, processingVideos,
                   videoMetadataCache, timeboltedCache, timestampCache, NotAnalysis>>

\* lines 553-568 and 996-1013: ffmpeg exits.  No silence in the first five
\* seconds means timebolted, a failed command means not timebolted; with a
\* hash the result is written to the timebolt cache
ClassifyDone(t, count) ==
    /\ tasks[t].pc = "classifying"
    /\ LET v == tasks[t].videoPath
           isTimeboltedBySilence == count = "0"
           task == [tasks[t] EXCEPT !.analysis =
                       [isTimebolted |-> isTimeboltedBySilence,
                        detectionMethod |-> "silence-analysis"]]
       IN  /\ timeboltedCache' =
                IF task.hash # null
                THEN Put(task.timebolted, v,
                         [isTimebolted |-> isTimeboltedBySilence,
                          method |-> "silence-analysis", hash |-> task.hash])
                ELSE timeboltedCache
           /\ tasks' = [tasks EXCEPT ![t] = extractTimestampFromVideo(task)]
    /\ UNCHANGED <<files, edits, lectureRecordings, manualTracking, scan, processingVideos,
                   videoMetadataCache, timestampCache, NotAnalysis>>

\* lines 633-645: the hash arrives in extractTimestampFromVideo.  With an entry
\* of the same hash in the loaded cache the function returns the cached
\* timestamp or null; otherwise it starts ffprobe
ExtractHashRead(t) ==
    /\ tasks[t].pc = "extractHash"
    /\ LET v == tasks[t].videoPath
           fileHash == getFileHash(files[v])
           cache == tasks[t].timestamps
           task == [tasks[t] EXCEPT !.hash = fileHash]
       IN  IF v \in DOMAIN cache /\ fileHash # null /\ cache[v].hash = fileHash
           THEN Finish(t, [task EXCEPT !.timestampData =
                              IF cache[v].timestamp # ""
                              THEN [timestamp |-> cache[v].timestamp,
                                    duration |-> cache[v].duration]
                              ELSE NoTimestamp])
           ELSE /\ tasks' = [tasks EXCEPT ![t] =
                       [task EXCEPT !.pc = "extracting", !.ran = @ \cup {"extraction"}]]
                /\ UNCHANGED processingVideos
    /\ UNCHANGED <<files, edits, lectureRecordings, manualTracking, scan,
                   videoMetadataCache, timeboltedCache, timestampCache, NotAnalysis>>

\* lines 647-957: the extraction ends.  An exception or unreadable dimensions
\* return null at once; otherwise the frame scan found no timestamp, or found
\* one and the duration probe followed, and with a hash the outcome is written
\* to the timestamp cache
ExtractDone(t, outcome) ==
    /\ tasks[t].pc = "extracting"
    /\ LET v == tasks[t].videoPath
           timestamp == IF outcome = "found" THEN OcrTimestamp ELSE ""
           durationStr == IF outcome = "found" THEN "13m" ELSE ""
           task == [tasks[t] EXCEPT !.timestampData =
                       [timestamp |-> timestamp, duration |-> durationStr]]
       IN  /\ timestampCache' =
                IF outcome # "fails" /\ task.hash # null
                THEN Put(task.timestamps, v,
                         [timestamp |-> timestamp, duration |-> durationStr,
                          hash |-> task.hash])
                ELSE timestampCache
           /\ Finish(t, task)
    /\ UNCHANGED <<files, edits, lectureRecordings, manualTracking, scan,
                   videoMetadataCache, timeboltedCache, NotAnalysis>>

\* lines 1287-1297 and 1304-1314: Bun.write of the handler's copy of the cache
\* ends.  Fulfilled, the file holds the copy and the promise resolves with
\* videoData; rejected, the promise rejects and the requests answer 500
WriteDone(r, ok) ==
    /\ r \in Requests
    /\ tasks[r].pc = "writing"
    /\ videoMetadataCache' = IF ok THEN tasks[r].cache ELSE videoMetadataCache
    /\ IF ok THEN Settle(r, tasks[r], 200, tasks[r].result)
             ELSE Settle(r, tasks[r], 500, Failed)
    /\ UNCHANGED <<files, edits, lectureRecordings, manualTracking, scan,
                   timeboltedCache, timestampCache, NotAnalysis>>

\* ------------------------------------------------ background video scanning
Range(seq) == {seq[i] : i \in 1..Len(seq)}

\* lines 2328-2337 and 2370-2383: the scan turns to its next video and calls
\* analyzeVideo; after the last one it deletes the cached paths that are not
\* in allVideoPaths and, if there were any, awaits Bun.write
NextVideo(task, sc) ==
    IF sc.processed < Len(sc.videosToProcess)
    THEN /\ scan' = [sc EXCEPT !.processed = @ + 1]
         /\ tasks' = [tasks EXCEPT ![0] =
               analyzeVideo([task EXCEPT !.videoPath = sc.videosToProcess[sc.processed + 1],
                                         !.hash = null, !.analysis = NoAnalysis,
                                         !.timestampData = NoTimestamp,
                                         !.timebolted = << >>, !.timestamps = << >>])]
    ELSE LET stalePaths == DOMAIN task.cache \ Range(sc.allVideoPaths)
         IN  /\ scan' = sc
             /\ tasks' = [tasks EXCEPT ![0] =
                   IF stalePaths # {}
                   THEN [task EXCEPT !.pc = "cleanup", !.cache = Without(@, stalePaths)]
                   ELSE [task EXCEPT !.pc = "done", !.cache = << >>,
                                     !.timebolted = << >>, !.timestamps = << >>]]

\* lines 2300-2324: the hash of one video of allVideoPaths arrives.  A missing
\* file is skipped, a video cached under the same hash needs nothing, any other
\* is to be processed; after the last video the scan returns if nothing is to
\* be processed
ScanHashRead ==
    /\ tasks[0].pc = "checking"
    /\ LET videoPath == scan.allVideoPaths[scan.checked + 1]
           fileHash == getFileHash(files[videoPath])
           cache == tasks[0].cache
           videosToProcess ==
               IF fileHash = null THEN scan.videosToProcess
               ELSE IF videoPath \in DOMAIN cache /\ cache[videoPath].hash = fileHash
               THEN scan.videosToProcess
               ELSE Append(scan.videosToProcess, videoPath)
           sc == [scan EXCEPT !.checked = @ + 1, !.videosToProcess = videosToProcess]
       IN  IF sc.checked < Len(sc.allVideoPaths)
           THEN /\ scan' = sc
                /\ UNCHANGED tasks
           ELSE IF videosToProcess = << >>
           THEN /\ scan' = sc
                /\ tasks' = [tasks EXCEPT ![0] = [@ EXCEPT !.pc = "done", !.cache = << >>]]
           ELSE NextVideo(tasks[0], sc)
    /\ UNCHANGED <<files, edits, lectureRecordings, manualTracking, processingVideos,
                   videoMetadataCache, timeboltedCache, timestampCache, NotAnalysis>>

\* lines 2352-2363: the hash arrives again; with a hash the scan stores
\* videoData in its copy of the cache and awaits Bun.write
ScanSaveHash ==
    /\ tasks[0].pc = "saveHash"
    /\ LET task == tasks[0]
           fileHash == getFileHash(files[task.videoPath])
       IN  IF fileHash # null
           THEN /\ tasks' = [tasks EXCEPT ![0] =
                       [task EXCEPT !.pc = "writing", !.fileHash = fileHash,
                                    !.cache = Put(@, task.videoPath,
                                                  [hash |-> fileHash,
                                                   data |-> VideoData(task)])]]
                /\ UNCHANGED scan
           ELSE NextVideo(task, scan)
    /\ UNCHANGED <<files, edits, lectureRecordings, manualTracking, processingVideos,
                   videoMetadataCache, timeboltedCache, timestampCache, NotAnalysis>>

\* lines 2360-2366: Bun.write of the scan's copy ends; a rejection is logged
\* and the scan goes on
ScanWriteDone(ok) ==
    /\ tasks[0].pc = "writing"
    /\ videoMetadataCache' = IF ok THEN tasks[0].cache ELSE videoMetadataCache
    /\ NextVideo(tasks[0], scan)
    /\ UNCHANGED <<files, edits, lectureRecordings, manualTracking, processingVideos,
                   timeboltedCache, timestampCache, NotAnalysis>>

\* lines 2381-2387: Bun.write of the cleaned copy ends
ScanCleanupDone(ok) ==
    /\ tasks[0].pc = "cleanup"
    /\ videoMetadataCache' = IF ok THEN tasks[0].cache ELSE videoMetadataCache
    /\ tasks' = [tasks EXCEPT ![0] = [@ EXCEPT !.pc = "done", !.cache = << >>,
                                               !.timebolted = << >>, !.timestamps = << >>]]
    /\ UNCHANGED <<files, edits, lectureRecordings, manualTracking, scan, processingVideos,
                   timeboltedCache, timestampCache, NotAnalysis>>

\* the file of a recording is replaced, removed or created
EditFile(v, content) ==
    /\ edits < MaxEdits
    /\ content # files[v]
    /\ files' = [files EXCEPT ![v] = content]
    /\ edits' = edits + 1
    /\ UNCHANGED <<lectureRecordings, manualTracking, scan, tasks, processingVideos,
                   videoMetadataCache, timeboltedCache, timestampCache, NotAnalysis>>

\* ------------------------------------- extractTimestampFromVideo, its loops
\* lines 647-663: ffprobe reads the dimensions; without them, or with an
\* exception, the function returns null
ProbeDimensions(ok) ==
    /\ extraction.pc = "idle"
    /\ extraction' = IF ok THEN [extraction EXCEPT !.pc = "frames"]
                     ELSE [extraction EXCEPT !.pc = "returned", !.returned = "null"]
    /\ UNCHANGED <<Uploads, Limiter, Analysis>>

\* a scan that gives up at the first probe that throws
ProbeStartFrameStopsOnError(p) ==
    /\ extraction.pc = "frames"
    /\ LET frameNum == framesToTry[Len(extraction.results) + 1]
           stamp == IF Validates(p) THEN StartFormat(p) ELSE NoStamp
           results == Append(extraction.results, [frameNum |-> frameNum, stamp |-> stamp])
           last == Validates(p) \/ p = Threw \/ Len(results) = Len(framesToTry)
       IN  extraction' =
              [extraction EXCEPT !.results = results,
                                 !.probes = Append(@, p),
                                 !.timestamp = IF last THEN FirstStamp(results) ELSE @,
                                 !.pc = IF ~last THEN "frames"
                                        ELSE IF FirstStamp(results) # NoStamp THEN "duration"
                                        ELSE "returned",
                                 !.returned = IF last /\ FirstStamp(results) = NoStamp
                                              THEN "null" ELSE @]
    /\ UNCHANGED <<Uploads, Limiter, Analysis>>

\* lines 693-799 and 941-953: one turn of the loop over framesToTry.  A valid
\* text ends the loop, anything else is recorded as null; after the loop the
\* first valid result gives the timestamp, and without one the function
\* returns null
ProbeStartFrame(p) ==
    /\ extraction.pc = "frames"
    /\ LET frameNum == framesToTry[Len(extraction.results) + 1]
           stamp == IF Validates(p) THEN StartFormat(p) ELSE NoStamp
           results == Append(extraction.results, [frameNum |-> frameNum, stamp |-> stamp])
           last == Validates(p) \/ Len(results) = Len(framesToTry)
       IN  extraction' =
              [extraction EXCEPT !.results = results,
                                 !.probes = Append(@, p),
                                 !.timestamp = IF last THEN FirstStamp(results) ELSE @,
                                 !.pc = IF ~last THEN "frames"
                                        ELSE IF FirstStamp(results) # NoStamp THEN "duration"
                                        ELSE "returned",
                                 !.returned = IF last /\ FirstStamp(results) = NoStamp
                                              THEN "null" ELSE @]
    /\ UNCHANGED <<Uploads, Limiter, Analysis>>

\* lines 798-816 and 919-953: the duration probe and the frame count.  Without
\* a duration, with a failed count or with at most 15 frames the function
\* returns the start timestamp alone
ProbeDuration(durationSeconds, totalFrames) ==
    /\ extraction.pc = "duration"
    /\ extraction' =
          IF durationSeconds = 0
          THEN [extraction EXCEPT !.pc = "returned", !.returned = "data"]
          ELSE IF totalFrames > 15
          THEN [extraction EXCEPT !.pc = "endFrames", !.totalFrames = totalFrames,
                                  !.durationStr = formatFuzzyDuration(durationSeconds)]
          ELSE [extraction EXCEPT !.pc = "returned", !.returned = "data",
                                  !.totalFrames = totalFrames,
                                  !.durationStr = formatFuzzyDuration(durationSeconds)]
    /\ UNCHANGED <<Uploads, Limiter, Analysis>>

\* lines 828-918 and 941-953: one turn of the loop over lastFramesToTry.  A
\* frame that was not written, a text that does not validate and an exception
\* are each recorded as null and followed by the next frame (a cleanup that
\* throws after an invalid text records a second null for the same frame,
\* which `find` skips like the first: the model keeps one record per frame)
ProbeEndFrame(p) ==
    /\ extraction.pc = "endFrames"
    /\ LET frames == lastFramesToTry(extraction.totalFrames)
           frameNum == frames[Len(extraction.endResults) + 1]
           stamp == IF Validates(p) THEN EndFormat(p) ELSE NoStamp
           endResults == Append(extraction.endResults,
                                [frameNum |-> frameNum, stamp |-> stamp])
           last == Validates(p) \/ Len(endResults) = Len(frames)
       IN  extraction' =
              [extraction EXCEPT !.endResults = endResults,
                                 !.endProbes = Append(@, p),
                                 !.endTimestamp = IF last THEN FirstStamp(endResults) ELSE @,
                                 !.pc = IF last THEN "returned" ELSE "endFrames",
                                 !.returned = IF last THEN "data" ELSE @]
    /\ UNCHANGED <<Uploads, Limiter, Analysis>>

\* no request handler is suspended, no transfer loop is running, every cleanup
\* callback has run and every write has reached the file
NoneInFlight ==
    /\ \A id \in OpIds : ops[id].pc \in {"none", "done"}
    /\ timers = {}
    /\ pendingWrites = {}

\* what the server does once a request is accepted, and what the remote, the
\* timers, the file system and a pause request do
Engine ==
    \/ \E id \in OpIds : UploadInit(id)
    \/ \E id \in OpIds : UploadInitFails(id)
    \/ \E v \in Videos : PauseRequest(v)
    \/ \E id \in OpIds, ok \in BOOLEAN : ResumeToken(id, ok)
    \/ \E id \in OpIds, status \in ProbeStatuses, range \in RangeHeaders :
          ResumeProbe(id, status, range)
    \/ \E id \in OpIds : ResumeProbeFails(id)
    \/ \E id \in OpIds : ReadDone(id)
    \/ \E id \in OpIds, status \in ChunkStatuses, elapsed \in Elapsed :
          ChunkResponse(id, status, elapsed)
    \/ \E id \in OpIds : ChunkTimeout(id)
    \/ \E id \in OpIds : ChunkAborted(id)
    \/ \E id \in OpIds : ChunkNetworkError(id)
    \/ \E id \in OpIds : JsonDone(id)
    \/ \E id \in OpIds, ok \in BOOLEAN : SyncDone(id, ok)
    \/ \E t \in timers : CleanupFires(t)
    \/ \E w \in pendingWrites : WriteLands(w)

\* Requests may arrive at any time, also while an operation of the same video
\* is in flight.  The process starts with an empty session file.
Next ==
    \/ \E v \in Videos, exists \in BOOLEAN, configured \in BOOLEAN :
          UploadRejected(v, exists, configured)
    \/ \E v \in Videos : UploadRequest(v)
    \/ \E v \in Videos, configured \in BOOLEAN : ResumeRejected(v, configured)
    \/ \E v \in Videos : ResumeRequest(v)
    \/ Engine

Init == InitWith(MaxOverlapOps, {<< >>})

Spec == Init /\ [][Next]_vars

\* The client sends an upload or resume request only when the previous
\* operation has ended and the server has settled; everything else is as in
\* Next.  The process starts with any of PersistedFiles on disk.
NextSerial ==
    \/ \E v \in Videos, exists \in BOOLEAN, configured \in BOOLEAN :
          NoneInFlight /\ UploadRejected(v, exists, configured)
    \/ \E v \in Videos : NoneInFlight /\ UploadRequest(v)
    \/ \E v \in Videos, configured \in BOOLEAN :
          NoneInFlight /\ ResumeRejected(v, configured)
    \/ \E v \in Videos : NoneInFlight /\ ResumeRequest(v)
    \/ Engine

InitSerial == InitWith(MaxOps, PersistedFiles)

SpecSerial == InitSerial /\ [][NextSerial]_vars

\* The transfer loop keeps running once started: the file read settles, the
\* runtime settles a fetch whose signal is aborted, the remote answers or the
\* request fails or times out (the 10 s timer of line 367 is always armed),
\* the completion's body read and the sync command settle, and writes to the
\* session file land.  Requests and pauses are the client's choice.
FairLoop ==
    /\ \A id \in 1..MaxOps : WF_vars(ReadDone(id))
    /\ \A id \in 1..MaxOps : WF_vars(ChunkAborted(id))
    /\ \A id \in 1..MaxOps :
          WF_vars(\/ \E status \in ChunkStatuses, elapsed \in Elapsed :
                        ChunkResponse(id, status, elapsed)
                  \/ ChunkTimeout(id)
                  \/ ChunkNetworkError(id))
    /\ \A id \in 1..MaxOps : WF_vars(JsonDone(id))
    /\ \A id \in 1..MaxOps : WF_vars(\E ok \in BOOLEAN : SyncDone(id, ok))
    /\ WF_vars(\E w \in pendingWrites : WriteLands(w))

SpecSerialFair == InitSerial /\ [][NextSerial]_vars /\ FairLoop

\* As NextSerial, with clients that open and close event streams of upload ids
\* at any time.
NextSubscribers ==
    \/ NextSerial
    \/ \E s \in Connections, uploadId \in OpIds : Subscribe(s, uploadId)
    \/ \E s \in Connections : Close(s)

SpecSubscribers == InitSerial /\ [][NextSubscribers]_vars

\* data/active-uploads.json left by a run whose loop sent every chunk and ended
\* without a 200/201 answer (line 466): the snapshot written after the last
\* chunk (lines 400-408) has the whole file as its offset
ExhaustedFiles ==
    {(v :> Session(OldUrl, FileSize(v), FileSize(v))) : v \in Videos}

InitRestarted == InitWith(MaxOps, PersistedFiles \cup ExhaustedFiles)

\* As SpecSubscribers, the process starting with any session file an earlier
\* run can leave.
SpecRestarted == InitRestarted /\ [][NextSubscribers]_vars

\* Two clients upload two different videos at the same time, each video once;
\* the remote accepts every chunk (308, and 200 for the last).  The snapshot
\* writes and the completion deletes of the two loops interleave.
NextPair ==
    \/ \E v \in VideoPair :
          /\ \A j \in OpIds : ops[j].videoPath # v
          /\ UploadRequest(v)
    \/ \E id \in OpIds : UploadInit(id)
    \/ \E id \in OpIds : ReadDone(id)
    \/ \E id \in OpIds, status \in {200, 308}, elapsed \in Elapsed :
          ChunkResponse(id, status, elapsed)
    \/ \E id \in OpIds : JsonDone(id)
    \/ \E id \in OpIds, ok \in BOOLEAN : SyncDone(id, ok)
    \/ \E t \in timers : CleanupFires(t)
    \/ \E w \in pendingWrites : WriteLands(w)

SpecPair == Init /\ [][NextPair]_vars

\* every request handler has answered and every transfer loop has returned;
\* cleanup callbacks and writes may still be pending
AllEnded == \A id \in OpIds : ops[id].pc \in {"none", "done"}

\* The client sends an upload or resume request as soon as the previous
\* operation has ended, without waiting for the cleanup of its progress entry
\* or for its writes; everything else is as in Next.
NextQuick ==
    \/ \E v \in Videos, exists \in BOOLEAN, configured \in BOOLEAN :
          AllEnded /\ UploadRejected(v, exists, configured)
    \/ \E v \in Videos : AllEnded /\ UploadRequest(v)
    \/ \E v \in Videos, configured \in BOOLEAN :
          AllEnded /\ ResumeRejected(v, configured)
    \/ \E v \in Videos : AllEnded /\ ResumeRequest(v)
    \/ Engine

SpecQuick == Init /\ [][NextQuick]_vars

\* The video-processing code calls runFfmpeg at any time; each ffmpeg process
\* exits with success or failure.  No upload is requested meanwhile.
NextLimiter ==
    \/ \E c \in Callers : RunCall(c)
    \/ \E c \in Callers : RunAdmitted(c)
    \/ \E c \in Callers, ok \in BOOLEAN : RunSettles(c, ok)

InitLimiter == InitWith(MaxOps, {<< >>})

SpecLimiter == InitLimiter /\ [][NextLimiter]_vars

\* The limiter when every operation that holds a slot finishes.  The frame of a
\* run() whose acquire() has resolved is resumed by the microtask queue, which
\* the runtime drains before it takes the next event; every ffmpeg process
\* exits, with success or failure.  Nothing forces a call of runFfmpeg to be
\* made.
FairLimiter ==
    /\ \A c \in Callers : WF_vars(RunAdmitted(c))
    /\ \A c \in Callers : WF_vars(\E ok \in BOOLEAN : RunSettles(c, ok))

SpecLimiterFair == InitLimiter /\ [][NextLimiter]_vars /\ FairLimiter

\* what the server does once a metadata request is accepted
Pipeline ==
    \/ \E r \in Requests : HashRead(r)
    \/ \E t \in Tasks : AnalyzeHashRead(t)
    \/ \E t \in Tasks, count \in SilenceCounts : ClassifyDone(t, count)
    \/ \E t \in Tasks : ExtractHashRead(t)
    \/ \E t \in Tasks, outcome \in ExtractOutcomes : ExtractDone(t, outcome)
    \/ \E r \in Requests, ok \in BOOLEAN : WriteDone(r, ok)

\* Clients request the metadata of recordings at any time, and recording files
\* are replaced meanwhile.  data/lecture_recordings.json lists no video, so the
\* scan has returned.  No upload is requested, and the analysis tasks are
\* fewer than the limiter's slots.
NextAnalysis ==
    \/ \E v \in Recordings : MetadataRequest(v)
    \/ Pipeline
    \/ \E v \in Edited, content \in Contents \cup {Missing} : EditFile(v, content)

InitAnalysis == InitAll(MaxOps, {<< >>}, {<< >>}, ManualTrackings, EarlierCaches)

SpecAnalysis == InitAnalysis /\ [][NextAnalysis]_vars

\* Clients request the metadata of recordings while the scan started with the
\* process runs over the listed videos; the files stay as they are.
NextScan ==
    \/ \E v \in Recordings : MetadataRequest(v)
    \/ Pipeline
    \/ ScanHashRead
    \/ ScanSaveHash
    \/ \E ok \in BOOLEAN : ScanWriteDone(ok)
    \/ \E ok \in BOOLEAN : ScanCleanupDone(ok)

\* the process starts with one video listed and any of EarlierCaches, or with
\* both videos listed and no cache
InitScan ==
    /\ InitAll(MaxOps, {<< >>}, RecordingLists \ {<< >>}, {{}}, EarlierCaches)
    /\ Len(lectureRecordings) = 2 => videoMetadataCache = << >>

SpecScan == InitScan /\ [][NextScan]_vars

\* One call of extractTimestampFromVideo for a video that is not in the
\* timestamp cache: every probe yields any of StartProbes or EndProbes.
NextExtraction ==
    \/ \E ok \in BOOLEAN : ProbeDimensions(ok)
    \/ \E p \in StartProbes : ProbeStartFrame(p)
    \/ \E durationSeconds \in Durations, totalFrames \in FrameCounts :
          ProbeDuration(durationSeconds, totalFrames)
    \/ \E p \in EndProbes : ProbeEndFrame(p)

InitExtraction == InitWith(MaxOps, {<< >>})

SpecExtraction == InitExtraction /\ [][NextExtraction]_vars

\* ===================================================================== claims
\* ceil(a / b) for positive b
CeilDiv(a, b) == (a + b - 1) \div b

\* the operations of video v whose transfer loop is between chunks or has a
\* chunk in flight
ActiveLoops(v) == {id \in OpIds : ops[id].videoPath = v /\ Transferring(id)}

\* C1: a start-upload request that arrives while a transfer loop of the same
\* video is active is rejected: it is not answered with a new upload id, starts
\* no transfer loop of its own and never replaces the persisted session of the
\* running upload with its own.
C1_StartWhileActiveRejected ==
    \A id \in OpIds :
        ops[id].kind = "upload" /\ ops[id].activeAtRequest =>
            /\ ops[id].response # "started"
            /\ ~ops[id].loopStarted
            /\ \A v \in DOMAIN disk : disk[v].uploadSessionUrl # id

\* C2: in every reachable state no video has two operations with an active
\* transfer loop of which one is a resume: a resume issued while a transfer of
\* the video is running starts no second loop.
C2_OneActiveLoopPerVideo ==
    \A v \in Videos :
        \A a \in ActiveLoops(v), b \in ActiveLoops(v) :
            ops[b].kind = "resume" => a = b

\* C3: the chunks an upload started at offset 0 sends tile the file: the first
\* starts at 0, each next one starts right after the previous one ended, none is
\* longer than CHUNK_SIZE or reaches past the last byte, and once the final chunk
\* is acknowledged exactly ceil(S / CHUNK_SIZE) chunks were sent, the last one
\* ending at S - 1.
C3_ChunksTileTheFile ==
    \A id \in OpIds :
        ops[id].kind = "upload" =>
            LET s == sent[id]
                S == loop[id].totalBytes
            IN  /\ Len(s) <= CeilDiv(S, CHUNK_SIZE)
                /\ \A i \in 1..Len(s) :
                      /\ s[i].start = (IF i = 1 THEN 0 ELSE s[i - 1].end + 1)
                      /\ s[i].start <= s[i].end
                      /\ s[i].end - s[i].start + 1 <= CHUNK_SIZE
                      /\ s[i].end <= S - 1
                /\ ops[id].acked =>
                      /\ Len(s) = CeilDiv(S, CHUNK_SIZE)
                      /\ s[Len(s)].end = S - 1

\* an upload of the 12 MiB file was acknowledged after its three chunks
\* 0-5242879, 5242880-10485759 and 10485760-12582911
C3_Witness ==
    \E id \in OpIds :
        /\ ops[id].kind = "upload" /\ ops[id].acked /\ ops[id].pc = "done"
        /\ sent[id] = <<[start |-> 0, end |-> CHUNK_SIZE - 1],
                        [start |-> CHUNK_SIZE, end |-> 2 * CHUNK_SIZE - 1],
                        [start |-> 2 * CHUNK_SIZE, end |-> FileSize(ops[id].videoPath) - 1]>>

\* C4: once the remote has acknowledged the final chunk with 200/201 and the
\* transfer loop has returned, the operation's progress entry (while it exists)
\* has status complete, percent 100 and bytesUploaded = bytesTotal.
C4_AckedUploadEndsComplete ==
    \A id \in OpIds :
        ops[id].acked /\ ops[id].pc = "done" /\ HasProgress(uploadProgress, id) =>
            LET p == GetProgress(uploadProgress, id)
            IN  /\ p.status = "complete"
                /\ p.percent = 100
                /\ p.bytesUploaded = p.bytesTotal

\* C5: once the final chunk of an upload session has been acknowledged and its
\* completion handled, the session file, with every write landed, holds no
\* session of that upload session url.
C5_NoSessionAfterComplete ==
    pendingWrites = {} =>
        \A v \in DOMAIN disk :
            ~\E id \in OpIds :
                /\ ops[id].acked /\ ops[id].pc \in {"sync", "done"}
                /\ loop[id].uploadUrl = disk[v].uploadSessionUrl

\* C6: after a pause of a video was accepted while one transfer loop of that
\* video was active and no other operation of the video was in flight, that loop
\* sends no further chunk, and when it has returned its progress entry (while it
\* exists) has status paused.
C6_PauseStopsTheLoop ==
    [][\A id \in pauseAccepted :
          /\ sent'[id] = sent[id]
          /\ ops'[id].pc = "done" /\ HasProgress(uploadProgress', id) =>
                GetProgress(uploadProgress', id).status = "paused"]_vars

\* C7: when an upload started at offset 0 has ended paused, the bytesUploaded of
\* its progress entry and, with every write landed, of its persisted session
\* equal the offset the transfer loop had reached.
C7_PausedOffsetIsCurrent ==
    \A id \in OpIds :
        /\ ops[id].kind = "upload"
        /\ ops[id].pc = "done"
        /\ HasProgress(uploadProgress, id)
        /\ GetProgress(uploadProgress, id).status = "paused"
        => /\ GetProgress(uploadProgress, id).bytesUploaded = loop[id].bytesUploaded
           /\ pendingWrites = {} /\ ops[id].videoPath \in DOMAIN disk =>
                 disk[ops[id].videoPath].bytesUploaded = loop[id].bytesUploaded

\* C8: when the probe of a resume is answered 308 with "Range: bytes=0-N", the
\* first chunk the resumed transfer loop sends starts at byte N + 1, whatever
\* bytesUploaded the persisted session held.
C8_ResumeStartsAtConfirmedOffset ==
    \A id \in OpIds :
        /\ ops[id].kind = "resume"
        /\ ops[id].probe.status = 308
        /\ ops[id].probe.range # NoRange
        /\ Len(sent[id]) > 0
        => sent[id][1].start = ops[id].probe.range.last + 1

\* a resumed loop has sent its first chunk after a 308 probe that confirmed an
\* offset different from the persisted one
C8_Witness ==
    \E id \in OpIds :
        /\ ops[id].kind = "resume"
        /\ ops[id].probe.status = 308
        /\ ops[id].probe.range # NoRange
        /\ ops[id].probe.range.last + 1 # loop[id].startBytes
        /\ Len(sent[id]) > 0

\* C9: a resume starts the transfer loop only when its probe was answered 308
\* with a Range header, i.e. when the remote confirmed an offset.
C9_LoopOnlyAfterConfirmedOffset ==
    \A id \in OpIds :
        ops[id].kind = "resume" /\ ops[id].loopStarted =>
            ops[id].probe.status = 308 /\ ops[id].probe.range # NoRange

\* a resume whose probe was answered 404 or 410
Expired(id) == ops[id].kind = "resume" /\ ops[id].probe.status \in {404, 410}

C12_TimeoutAbortsOnlyTheRequest ==
    \A id \in OpIds :
        ops[id].pc = "read" /\ id \notin cancelledUploads => id \notin aborted

\* a progress entry whose status is one an operation ends in
Terminal(p) == p.status \in {"complete", "error", "paused"}

\* C13: while the progress entry of an operation says complete, error or paused,
\* the last event on the stream of every open connection to the operation's id
\* is that entry: a connection opened before the transition was sent the final
\* event, one opened after it (before the entry is cleaned up) the snapshot.
C13_TerminalEventReachesSubscribers ==
    \A s \in Connections :
        LET id == channels[s].uploadId
        IN  /\ channels[s].state = "open"
            /\ HasProgress(uploadProgress, id)
            /\ Terminal(GetProgress(uploadProgress, id))
            => /\ channels[s].stream # << >>
               /\ channels[s].stream[Len(channels[s].stream)] = GetProgress(uploadProgress, id)

\* a connection opened while the upload was running has received the event that
\* says paused
C13_Witness ==
    \E s \in Connections :
        /\ channels[s].state = "open"
        /\ Len(channels[s].stream) >= 2
        /\ channels[s].stream[1].status = "uploading"
        /\ channels[s].stream[Len(channels[s].stream)].status = "paused"

\* the answers of /api/upload that turn the request down before it starts
Refused == {"NotFound", "NotConfigured"}

\* C14: a start request for a missing file is answered NotFound, one without
\* Drive credentials NotConfigured; the step that answers so changes nothing
\* but the request's own record (no progress entry, no session written or
\* handed to the file system, no remote session, no event, no timer), and the
\* refused operation never starts a transfer loop or sends a chunk afterwards.
C14_RefusedStartChangesNothing ==
    [][\A id \in OpIds :
          /\ ops[id].kind = "none" /\ ops'[id].kind = "upload"
             /\ ops'[id].response \in Refused
             => /\ ops'[id].pc = "done" /\ ~ops'[id].loopStarted
                /\ ~HasProgress(uploadProgress', id)
                /\ UNCHANGED <<loop, sent, uploadProgress, cancelledUploads,
                               uploadAbortControllers, aborted, timers, disk,
                               pendingWrites, progressListeners, channels>>
          /\ ops[id].response \in Refused
             => /\ ops'[id] = ops[id] /\ loop'[id] = NoLoop /\ sent'[id] = << >>
                /\ ~HasProgress(uploadProgress', id)
                /\ \A w \in {disk'} \cup pendingWrites' :
                      \A v \in DOMAIN w : w[v].uploadSessionUrl # id]_vars

\* a start was refused while the session file held a session of the video, and
\* the file still holds it
C14_Witness ==
    \E id \in OpIds :
        /\ ops[id].kind = "upload" /\ ops[id].response \in Refused
        /\ ops[id].videoPath \in DOMAIN disk
        /\ disk[ops[id].videoPath].uploadSessionUrl = OldUrl
        /\ uploadProgress = << >>

\* C15: when an upload that was started successfully has its first chunk
\* request in flight, the caller has been answered with the upload id and the
\* session file holds the zero-progress session of the upload: its remote
\* session url, bytesUploaded = 0 and the file's size.
C15_SessionPersistedBeforeFirstChunk ==
    \A id \in OpIds :
        ops[id].kind = "upload" /\ ops[id].pc = "fetch" /\ Len(sent[id]) = 1 =>
            LET v == ops[id].videoPath
            IN  /\ ops[id].response = "started"
                /\ v \in DOMAIN disk
                /\ disk[v] = Session(loop[id].uploadUrl, 0, loop[id].totalBytes)

\* the step completes an upload of video v (the final chunk's 200/201 is
\* handled, or a resume probe is answered 200/201) or is a resume probe of v
\* answered 404/410
CompletesOrExpires(v) ==
    \E id \in OpIds :
        /\ ops[id].videoPath = v
        /\ \/ ops[id].pc = "json" /\ ops'[id].pc = "sync"
           \/ ops[id].pc = "probe" /\ ops'[id].probe.status \in {200, 201, 404, 410}

C17_StreamIsSnapshotThenEvents ==
    \A s \in Connections :
        channels[s].state # "none" =>
            /\ channels[s].stream = channels[s].published
            /\ \A i \in 1..Len(channels[s].stream) :
                  channels[s].stream[i].uploadId = channels[s].uploadId

\* a connection opened after the first chunk of an upload was acknowledged got
\* the snapshot at 42 percent, then the event of the second chunk, then the
\* final event
C17_Witness ==
    \E s \in Connections :
        /\ channels[s].state = "open"
        /\ Len(channels[s].stream) = 3
        /\ channels[s].stream[1].bytesUploaded = CHUNK_SIZE
        /\ channels[s].stream[2].bytesUploaded = 2 * CHUNK_SIZE
        /\ channels[s].stream[2].status = "uploading"
        /\ Terminal(channels[s].stream[3])

\* the calls of runFfmpeg that hold a slot: acquire() has resolved for them and
\* their release() has not run
Holding == {c \in Callers : callers[c].pc \in {"admitted", "running"}}

\* the calls of runFfmpeg suspended in acquire()
Waiting == {c \in Callers : callers[c].pc = "queued"}

\* C18: in every reachable state the number of calls holding a slot equals the
\* semaphore's running counter and lies between 0 and its limit.
C18_RunningCountsHolders ==
    /\ ffmpegSemaphore.running = Cardinality(Holding)
    /\ 0 <= ffmpegSemaphore.running
    /\ ffmpegSemaphore.running <= ffmpegSemaphore.limit

\* after a release handed its slot to a waiting call, all five slots are held
\* again and another call waits
C18_Witness ==
    /\ Cardinality(Holding) = MAX_CONCURRENT_FFMPEG
    /\ Cardinality(Waiting) = 1
    /\ \E c \in Callers : callers[c].pc = "settled"
    /\ \E c \in Holding : callers[c].waited

\* C19: a call leaves the wait queue only by being admitted, and only when no
\* waiting call called acquire() before it; a call that arrives is admitted at
\* once only when no call is waiting.  (Calls take their operationId right
\* before acquire(), so the ids give the order of arrival.)
C19_WaitersAdmittedInOrder ==
    [][\A c \in Callers :
          /\ callers[c].pc = "queued" /\ callers'[c].pc # "queued" =>
                /\ callers'[c].pc = "admitted"
                /\ \A d \in Waiting : callers[c].operationId <= callers[d].operationId
          /\ callers[c].pc = "idle" /\ callers'[c].pc = "admitted" =>
                Waiting = {}]_vars

\* of two calls that waited, the one that arrived first holds a slot while the
\* other one still waits
C19_Witness ==
    \E c \in Callers, d \in Callers :
        /\ callers[c].waited /\ callers[c].pc = "admitted"
        /\ callers[d].pc = "queued"
        /\ callers[c].operationId < callers[d].operationId

\* C20: every run() that has settled, fulfilled or rejected, has called
\* release() exactly once, and when every run() that was called has settled
\* the running counter is 0, no operation is left in activeOperations and no
\* call waits.
C20_RunReleasesExactlyOnce ==
    /\ \A c \in Callers :
          /\ callers[c].pc = "settled" => callers[c].releases = 1
          /\ callers[c].pc # "settled" => callers[c].releases = 0
    /\ (\A c \in Callers : callers[c].pc \in {"idle", "settled"}) =>
          /\ ffmpegSemaphore.running = 0
          /\ getStatus.operations = {}
          /\ ffmpegSemaphore.queue = << >>

\* all calls have settled, some fulfilled and some rejected, some after waiting
C20_Witness ==
    /\ \A c \in Callers : callers[c].pc = "settled"
    /\ \E c \in Callers : callers[c].outcome = "rejected" /\ callers[c].waited
    /\ \E c \in Callers : callers[c].outcome = "fulfilled"
    /\ ffmpegSemaphore.running = 0
    /\ getStatus.operations = {}

\* C21: getStatus() reports the number of slots held as `running`, the
\* operations whose fn() is running with their descriptions, and, as
\* `queueDepth`, the number of calls suspended in acquire().
C21_StatusReportsThreeValues ==
    LET status == getStatus
    IN  /\ status.running = Cardinality(Holding)
        /\ status.operations =
              {<<callers[c].operationId, callers[c].description>> :
                  c \in {x \in Callers : callers[x].pc = "running"}}
        /\ Waiting # {} =>
              /\ "queueDepth" \in DOMAIN status
              /\ status.queueDepth = Cardinality(Waiting)

\* the requests that started a processing promise which has not settled
Leaders == {r \in Requests : tasks[r].promise = r /\ tasks[r].pc \notin {"idle", "done"}}

\* request r2 arrived while the earlier request r1 of the same path was unanswered
Overlap(r1, r2) ==
    /\ r1 < r2
    /\ tasks[r2].pc # "idle"
    /\ tasks[r1].videoPath = tasks[r2].videoPath
    /\ r1 \notin tasks[r2].after

\* C22: of two requests for the same path that overlap in time, the later one
\* awaits the promise of the earlier one and starts no step of its own, so one
\* analysis runs, and both are answered in the same step with the same status
\* and the same result.
C22_OverlappingRequestsShareOneAnalysis ==
    \A r1, r2 \in Requests :
        Overlap(r1, r2) =>
            /\ tasks[r2].promise = tasks[r1].promise
            /\ tasks[r2].promise # r2
            /\ tasks[r2].pc \in {"waiting", "done"}
            /\ tasks[r2].ran = {} /\ ~tasks[r2].hit
            /\ (tasks[r1].pc = "done") = (tasks[r2].pc = "done")
            /\ tasks[r1].pc = "done" =>
                  /\ tasks[r1].status = tasks[r2].status
                  /\ tasks[r1].result = tasks[r2].result

\* two overlapping requests of an uncached video were answered 200 after one
\* classification and one extraction
C22_Witness ==
    \E r1, r2 \in Requests :
        /\ Overlap(r1, r2)
        /\ tasks[r1].pc = "done" /\ tasks[r1].status = 200
        /\ tasks[r1].ran = {"classification", "extraction"}
        /\ tasks[r2].result = tasks[r1].result

\* C24: a path is in processingVideos exactly while a request that started a
\* processing promise for it has that promise unsettled, whether it will
\* resolve or reject and whatever the number of requests awaiting it; and no
\* request awaits the promise of a request answered before it arrived.
C24_EntryLivesWithItsPromise ==
    /\ DOMAIN processingVideos = {tasks[r].videoPath : r \in Leaders}
    /\ \A r \in Leaders : processingVideos[tasks[r].videoPath] = r
    /\ \A r \in Requests :
          tasks[r].pc # "idle" /\ tasks[r].promise # r =>
              tasks[r].promise \notin tasks[r].after

\* a promise rejected with a request awaiting it, both were answered 500, and
\* the map is empty
C24_Witness ==
    \E r1, r2 \in Requests :
        /\ Overlap(r1, r2)
        /\ tasks[r1].pc = "done" /\ tasks[r1].status = 500
        /\ tasks[r2].pc = "done" /\ tasks[r2].status = 500
        /\ processingVideos = << >>

\* the steps of the underlying analysis: classification and timestamp extraction
AnalysisSteps == {"analyzeHash", "classifying", "extractHash", "extracting"}

\* the tasks, scan included, that are in an analysis step for path v
InFlight(v) == {t \in Tasks : tasks[t].videoPath = v /\ tasks[t].pc \in AnalysisSteps}

\* C23: at most one task, request or scan, is in an analysis step for one path,
\* and a task that is in one is the task processingVideos holds for the path.
C23_OneAnalysisPerPath ==
    \A v \in Recordings :
        /\ Cardinality(InFlight(v)) <= 1
        /\ \A t \in InFlight(v) :
              v \in DOMAIN processingVideos /\ processingVideos[v] = t

\* request r1 of a listed video was answered 200 from a file it could hash, and
\* request r2 of the same path arrived later and hashed the same content
AnalyzedTwice(r1, r2) ==
    /\ r1 \in tasks[r2].after
    /\ tasks[r1].videoPath \in Range(scan.allVideoPaths)
    /\ tasks[r1].videoPath = tasks[r2].videoPath
    /\ tasks[r1].status = 200 /\ tasks[r1].fileHash # null
    /\ tasks[r2].pc \notin {"idle", "hashing", "waiting"}
    /\ tasks[r2].promise = r2
    /\ tasks[r2].content = tasks[r1].content

\* C25: a request for a listed video that an earlier request answered from the
\* same content returns the cached data, equal to the earlier answer, and starts no
\* classification and no extraction.
C25_SecondRequestIsCacheHit ==
    \A r1, r2 \in Requests :
        AnalyzedTwice(r1, r2) =>
            /\ tasks[r2].hit
            /\ tasks[r2].result = tasks[r1].result
            /\ tasks[r2].ran = {}

\* request r leaves the step in which it awaited its hash
Hashed(r) == tasks[r].pc = "hashing" /\ tasks'[r].pc # "hashing"

\* the processing promise of request r resolves with videoData built by the
\* handler from a file it could hash
Analyzed(r) ==
    /\ tasks[r].pc \notin {"idle", "done"}
    /\ tasks[r].promise = r
    /\ tasks'[r].pc = "done" /\ tasks'[r].status = 200
    /\ ~tasks'[r].hit

\* C26: a request returns cached data only if the loaded cache has an entry of
\* its path whose hash equals the hash just computed, and then returns that
\* entry's data; with an entry of another hash it calls analyzeVideo, and when
\* its promise resolves the cache file holds the new hash and the new result
\* for the path.
C26_HitOnlyOnEqualFingerprint ==
    [][\A r \in Requests :
          LET v == tasks[r].videoPath
              fileHash == getFileHash(files[v])
              cache == tasks[r].cache
          IN  /\ Hashed(r) /\ tasks'[r].hit =>
                    /\ v \in DOMAIN cache
                    /\ cache[v].hash = fileHash
                    /\ tasks'[r].result = cache[v].data
              /\ (Hashed(r) /\ v \in DOMAIN cache /\ fileHash # null
                     /\ cache[v].hash # fileHash) =>
                    /\ ~tasks'[r].hit
                    /\ tasks'[r].pc \in {"analyzeHash", "extractHash"}
              /\ Analyzed(r) /\ tasks[r].fileHash # null =>
                    /\ v \in DOMAIN videoMetadataCache'
                    /\ videoMetadataCache'[v] =
                          [hash |-> tasks[r].fileHash, data |-> tasks'[r].result]
      ]_vars

\* a request was answered from a file of one prefix, the file was replaced by
\* one of another prefix, and a later request ran the analysis again and left
\* the new hash and its result in the cache
C26_Witness ==
    \E r1, r2 \in Requests :
        /\ r1 \in tasks[r2].after
        /\ tasks[r1].videoPath = tasks[r2].videoPath
        /\ tasks[r1].status = 200 /\ tasks[r1].fileHash = xxHash3(1)
        /\ tasks[r2].status = 200 /\ tasks[r2].fileHash = xxHash3(2)
        /\ ~tasks[r2].hit /\ tasks[r2].ran # {}
        /\ tasks[r2].videoPath \in DOMAIN videoMetadataCache
        /\ videoMetadataCache[tasks[r2].videoPath] =
              [hash |-> xxHash3(2), data |-> tasks[r2].result]

\* C27: when the scan ends, every path of the metadata cache file is one of
\* allVideoPaths.
C27_ScanLeavesNoStaleEntry ==
    [][tasks[0].pc # "done" /\ tasks'[0].pc = "done" =>
          DOMAIN videoMetadataCache' \subseteq Range(scan'.allVideoPaths)]_vars

\* line 971: isManuallyMarked || hasTimeboltedInName
Override(v) == v \in manualTracking \/ hasTimeboltedInName(v)

\* C28: a request for a marked or named video that started a processing
\* promise computes no hash, looks up no cache, starts no classification and
\* no extraction, and its answer has detectionMethod manual or filename.
C28_OverrideBypassesEverything ==
    \A r \in Requests :
        tasks[r].promise = r /\ Override(tasks[r].videoPath) =>
            /\ tasks[r].pc \notin {"hashing"} \cup AnalysisSteps
            /\ tasks[r].fileHash = null /\ ~tasks[r].hit
            /\ tasks[r].ran = {}
            /\ tasks[r].pc = "done" /\ tasks[r].status = 200 =>
                  tasks[r].result.detectionMethod \in {"manual", "filename"}

\* the processing promise of request r resolves with videoData whose timestamp
\* is null: the extraction threw, found no valid timestamp, or its cache said so
PartialAnswer(r) == Analyzed(r) /\ tasks'[r].timestampData = NoTimestamp

\* the answer of request r carries the classification and a null recordingTime
CarriesClassification(r) ==
    /\ tasks'[r].analysis.detectionMethod # ""
    /\ tasks'[r].result.isTimebolted = tasks'[r].analysis.isTimebolted
    /\ tasks'[r].result.detectionMethod = tasks'[r].analysis.detectionMethod
    /\ tasks'[r].result.recordingTime = ""

\* the cache file holds the answer of request r under the hash of the request
Stored(r) ==
    LET v == tasks[r].videoPath
    IN  /\ v \in DOMAIN videoMetadataCache'
        /\ videoMetadataCache'[v] = [hash |-> tasks'[r].fileHash, data |-> tasks'[r].result]

\* a request that loaded an entry without timestamp and computes the same hash
\* returns the entry's data and starts no step
PartialEntryIsHit(r) ==
    LET v == tasks[r].videoPath
        cache == tasks[r].cache
    IN  (/\ Hashed(r)
         /\ v \in DOMAIN cache
         /\ cache[v].data.recordingTime = ""
         /\ getFileHash(files[v]) # null
         /\ cache[v].hash = getFileHash(files[v])) =>
            /\ tasks'[r].pc = "done" /\ tasks'[r].hit
            /\ tasks'[r].result = cache[v].data
            /\ tasks'[r].ran = {}

Valid(probes) == {i \in 1..Len(probes) : Validates(probes[i])}

\* a loop over `frames` that has yielded `probes` and recorded `results` has
\* probed the frames in their order and nothing after a valid one
InOrder(frames, probes, results) ==
    /\ Len(results) = Len(probes) /\ Len(probes) <= Len(frames)
    /\ \A i \in 1..Len(results) : results[i].frameNum = frames[i]
    /\ \A i \in Valid(probes) : i = Len(probes)

\* C29: the start frames are probed in the order of framesToTry; a probe that
\* throws or yields no valid text is followed by the next frame, a valid one
\* by none; once the loop has ended the timestamp is that of the first valid
\* probe, and the function returns null only if no probe was valid.  The same
\* holds for the loop over the end frames and the end timestamp.
C29_FirstValidCandidateWins ==
    LET e == extraction
        endFrames == lastFramesToTry(e.totalFrames)
    IN  /\ InOrder(framesToTry, e.probes, e.results)
        /\ e.pc \notin {"idle", "frames"} =>
              /\ Valid(e.probes) = {} => Len(e.probes) \in {0, Len(framesToTry)}
              /\ e.timestamp = IF Valid(e.probes) = {} THEN NoStamp
                               ELSE StartFormat(e.probes[Len(e.probes)])
        /\ e.returned = "null" => Valid(e.probes) = {}
        /\ e.returned = "data" => e.timestamp # NoStamp
        /\ e.pc = "returned" => e.returned = IF Valid(e.probes) = {} THEN "null" ELSE "data"
        /\ InOrder(endFrames, e.endProbes, e.endResults)
        /\ e.pc = "returned" /\ e.endProbes # << >> =>
              /\ Valid(e.endProbes) = {} => Len(e.endProbes) = Len(endFrames)
              /\ e.endTimestamp = IF Valid(e.endProbes) = {} THEN NoStamp
                                  ELSE EndFormat(e.endProbes[Len(e.endProbes)])

\* the first start probe threw, the second had a year out of range, the third
\* was valid and its timestamp was returned; the first end probe threw, the
\* second was valid
C29_Witness ==
    /\ extraction.pc = "returned" /\ extraction.returned = "data"
    /\ extraction.probes = <<Threw, Text(2023, 3, 7, 9, 5, 30), Text(2025, 3, 7, 9, 6, 2)>>
    /\ extraction.timestamp = <<2025, 3, 7, 9, 6>>
    /\ extraction.endProbes = <<Threw, Text(2025, 3, 7, 10, 35, 0)>>
    /\ extraction.endTimestamp = <<10, 35>>

\* the calls whose resolve function is in the queue
Queued == {ffmpegSemaphore.queue[i] : i \in 1..Len(ffmpegSemaphore.queue)}

\* C38: whenever a call is suspended in acquire() all slots are held, i.e. a
\* non-empty queue implies running = limit; the calls suspended in acquire()
\* are exactly those whose resolve function is in the queue, each once; and
\* activeOperations never has more entries than `running`.
C38_NoLostWakeup ==
    /\ ffmpegSemaphore.queue # << >> => ffmpegSemaphore.running = ffmpegSemaphore.limit
    /\ Waiting # {} => ffmpegSemaphore.running = ffmpegSemaphore.limit
    /\ Queued = Waiting
    /\ Len(ffmpegSemaphore.queue) = Cardinality(Waiting)
    /\ Cardinality(ffmpegSemaphore.activeOperations) <= ffmpegSemaphore.running

\* a call still waits after an operation has ended: the release handed the
\* slot to the call at the head of the queue, which has not yet
\* recorded its operation
C38_Witness ==
    /\ Len(ffmpegSemaphore.queue) = 1
    /\ Cardinality({c \in Callers : callers[c].pc = "settled"}) = 1
    /\ ffmpegSemaphore.running = ffmpegSemaphore.limit
    /\ \E c \in Callers : callers[c].waited /\ callers[c].pc = "admitted"
    /\ Cardinality(ffmpegSemaphore.activeOperations) = ffmpegSemaphore.limit - 1

\* C39: given that every operation that holds a slot finishes, from some point
\* on no call is suspended in acquire(): every call that had to wait has been
\* admitted, and the wait queue is empty.  (Each call of runFfmpeg is made
\* once, so a call that has left the queue does not wait again.)
C39_EveryCallerAdmitted ==
    <>[](/\ \A c \in Callers :
              /\ callers[c].pc # "queued"
              /\ callers[c].waited => callers[c].pc \in {"admitted", "running", "settled"}
         /\ ffmpegSemaphore.queue = << >>)

\* both calls that had to wait have been admitted and have run to their end,
\* and the queue is empty
C39_Witness ==
    /\ ffmpegSemaphore.queue = << >>
    /\ Cardinality({c \in Callers : callers[c].waited /\ callers[c].pc = "settled"}) = 2
    /\ \E c \in Callers : callers[c].pc = "running"

\* request r ran the analysis of its video itself, with a hash, and was
\* answered 200 after its cache write
AnalysisCompleted(r) ==
    /\ tasks[r].pc = "done" /\ tasks[r].status = 200
    /\ tasks[r].promise = r /\ ~tasks[r].hit
    /\ tasks[r].fileHash # null

\* C37: once the analyses of two different videos have both completed with a
\* hash, the metadata cache file has an entry for each of the two videos.
C37_BothAnalysesAreCached ==
    \A r1 \in Requests, r2 \in Requests :
        (/\ AnalysisCompleted(r1) /\ AnalysisCompleted(r2)
         /\ tasks[r1].videoPath # tasks[r2].videoPath)
        => {tasks[r1].videoPath, tasks[r2].videoPath} \subseteq DOMAIN videoMetadataCache

\* C35: every entry of uploadProgress with status uploading belongs to an
\* operation whose handler is still on its way to start the transfer loop
\* (awaiting the access token, the session or the probe) or whose loop is
\* running; a start or a resume that failed has left no such entry.
C35_UploadingEntryHasLoop ==
    \A i \in 1..Len(uploadProgress) :
        uploadProgress[i].status = "uploading" =>
            ops[uploadProgress[i].uploadId].pc \in {"init", "probe", "read", "fetch", "json"}

\* C34: when a pause request is accepted for a video of which one operation
\* has a running transfer loop and every other operation has ended, its
\* progress entry gone or terminal and awaiting cleanup, the operation the
\* request flags in cancelledUploads is the one whose loop is running.
C34_PauseFlagsTheRunningLoop ==
    [][\A id \in OpIds, a \in OpIds :
          (/\ id \in cancelledUploads' /\ id \notin cancelledUploads
           /\ a \in ActiveLoops(ops[id].videoPath)
           /\ \A j \in OpIds \ {a} :
                 ops[j].videoPath = ops[a].videoPath =>
                    /\ ops[j].pc \in {"none", "done"}
                    /\ HasProgress(uploadProgress, j) =>
                          Terminal(GetProgress(uploadProgress, j)))
          => id = a]_vars

\* the operation found its upload complete: its transfer loop has handled the
\* 200/201 answer to the final chunk, or its resume probe was answered 200/201
FoundComplete(id) ==
    \/ ops[id].acked /\ ops[id].pc \in {"sync", "done"}
    \/ ops[id].kind = "resume" /\ ops[id].response = "AlreadyComplete"

\* C32: every operation that found its upload complete, in the transfer loop
\* or by the probe of a resume, has marked the recording of its video as
\* uploaded.
C32_CompletionMarksRecordingUploaded ==
    \A id \in OpIds : FoundComplete(id) => ops[id].videoPath \in uploaded

\* C31: the offset of a running transfer loop, which is where its next chunk
\* starts, never lies beyond the bytes the remote session holds: the loop moves
\* past a chunk only when the remote answered it with 308, 200 or 201.
C31_OffsetWithinConfirmed ==
    \A id \in OpIds :
        Transferring(id) => loop[id].bytesUploaded <= loop[id].confirmed

\* C33: every transfer loop that is started ends: an operation whose loop runs
\* reaches the end of performBackgroundUpload (entry complete, error or
\* paused), given that reads settle and the remote answers or the request
\* times out.
C33_StartedLoopEnds ==
    \A id \in 1..MaxOps : LoopRunning(id) ~> (ops[id].pc = "done")

\* C40: on every connection the events of an upload id never go backwards:
\* each published event has bytesUploaded <= bytesTotal and percent in 0..100,
\* and bytesUploaded is not below that of the event before it.
C40_ProgressNeverGoesBack ==
    \A s \in Connections :
        LET p == channels[s].published
        IN  \A i \in 1..Len(p) :
                /\ p[i].bytesUploaded <= p[i].bytesTotal
                /\ p[i].percent \in 0..100
                /\ i > 1 => p[i - 1].bytesUploaded <= p[i].bytesUploaded

\* the file's session of a video is not what it was
Altered(v) ==
    \/ (v \in DOMAIN disk) # (v \in DOMAIN disk')
    \/ v \in DOMAIN disk /\ v \in DOMAIN disk' /\ disk[v] # disk'[v]

\* C36: a write to the session file that saves or deletes the session of one
\* video leaves the session of every other video as it was: no step alters the
\* persisted sessions of two videos.
C36_WriteAltersOneSession ==
    [][\A v1, v2 \in VideoPair : Altered(v1) /\ Altered(v2) => v1 = v2]_vars
====
